---- MODULE Spec2Model ----
(***************************************************************************)
(* Subscription lifecycle handlers of nimbus-api: the cancel/reactivate    *)
(* handler (src/unnamed/part_000, lines 4-200) and the refund handler      *)
(* (src/api/send-email.js, lines 91-270), running as concurrent requests   *)
(* against the payment provider, which holds all the state.                *)
(*                                                                         *)
(* Every `await` of a handler is one step of a request: the provider call  *)
(* either returns (with its effect on the provider's state) or throws, and *)
(* the step runs the handler's synchronous code up to the next `await` or  *)
(* to the response.  The provider is the environment: it enforces nothing  *)
(* that the handlers do not check themselves, it retrieves and lists       *)
(* subscriptions of every status, and any call to it may throw.            *)
(*                                                                         *)
(* Spec runs the two lifecycle handlers.  WebhookSpec runs the webhook     *)
(* handler (src/api/verify-license.js, lines 134-201).  LicenseSpec runs   *)
(* the license check (src/api/verify-license.js, lines 4-128), its earlier *)
(* variant (src/unnamed/part_001) and the subscription confirmation        *)
(* (src/api/confirm-subscription.js) next to the lifecycle handlers, over  *)
(* a provider with two subscriptions and up to two customers.  ReadSpec    *)
(* runs the handlers that only read: the session resolution                *)
(* (src/unnamed/part_000, lines 206-293), the confirmation and the license *)
(* checks.  CheckoutSpec runs the creation of a checkout session           *)
(* (src/api/create-checkout.js) and of a payment intent                    *)
(* (src/api/create-payment-intent.js), followed by another creation or by  *)
(* a lookup, under every setting of the credentials.  LiveSpec runs the    *)
(* lifecycle handlers, the license checks and the webhook handler with     *)
(* every awaited call returning or failing in the end.                     *)
(***************************************************************************)
EXTENDS Integers, Sequences, FiniteSets, TLC

\* Number of requests in one run (sequential or concurrent).
MaxRequests == 2

Req == 1..MaxRequests

\* 1000 * 60 * 60 * 24, the divisor of daysSincePurchase.
MsPerDay == 1000 * 60 * 60 * 24

\* The 7 of `daysSincePurchase <= 7` and `daysSincePurchase > 7`.
RefundWindowDays == 7

\* The instants (ms since the subscription's creation at t = 0) at which the
\* clock can be read: inside the window, exactly 7 days, 1 ms later, 10 days.
ClockValues == << 3 * MsPerDay, 7 * MsPerDay, 7 * MsPerDay + 1, 10 * MsPerDay >>

VARIABLES
    clock,          \* index into ClockValues: the wall clock as last read
    env,            \* process.env, fixed for the run
    customers,      \* provider: customers, in listing order
    subscriptions,  \* provider: subscription id -> subscription
    invoices,       \* provider: subscription id -> invoices, most recent first
    refunds,        \* provider: refunds created, in creation order
    pc,             \* request -> the await it is suspended at
    req,            \* request -> endpoint, method and body
    local,          \* request -> the handler's local variables
    calls,          \* request -> provider calls made so far, in order
    res,            \* request -> response sent (status 0: none yet)
    mail            \* request -> notifications fetch()ed to /api/send-email

vars == << clock, env, customers, subscriptions, invoices, refunds,
           pc, req, local, calls, res, mail >>

provider == << customers, subscriptions, invoices, refunds >>

-----------------------------------------------------------------------------
(* Provider data *)

NoCharge == "none"

Invoice(st, ch) == [status |-> st, charge |-> ch]

\* Invoice histories of the subscription, most recent first: never invoiced;
\* the zero-amount invoice of a trial (paid, no charge); one paid charge; an
\* open renewal invoice on top of a paid one; a paid zero-amount invoice on
\* top of a paid charge; two paid charges.
InvoiceHistories ==
    { << >>,
      << Invoice("paid", NoCharge) >>,
      << Invoice("paid", "ch_1") >>,
      << Invoice("open", NoCharge), Invoice("paid", "ch_1") >>,
      << Invoice("paid", NoCharge), Invoice("paid", "ch_1") >>,
      << Invoice("paid", "ch_2"), Invoice("paid", "ch_1") >> }

\* unit_amount of the yearly price, in pence (every charge is for it).
UnitAmount == 499

ChargeAmount(ch) == UnitAmount

SubIds == {"sub_1"}

KnownEmail == "user@example.com"

NoSub == [id |-> "none", status |-> "none", created |-> 0, customer |-> "none",
          current_period_end |-> 0, cancel_at_period_end |-> FALSE]

NoInvoice == Invoice("none", NoCharge)

NoRefund == [id |-> 0, charge |-> NoCharge, amount |-> 0, currency |-> "none"]

\* Settings of process.env: production keys only; test mode forced with the
\* test key present; test mode forced without a test key.
EnvSettings ==
    { [FORCE_TEST_MODE |-> "",     TEST_STRIPE_SECRET_KEY |-> "",        STRIPE_SECRET_KEY |-> "sk_live"],
      [FORCE_TEST_MODE |-> "true", TEST_STRIPE_SECRET_KEY |-> "sk_test", STRIPE_SECRET_KEY |-> "sk_live"],
      [FORCE_TEST_MODE |-> "true", TEST_STRIPE_SECRET_KEY |-> "",        STRIPE_SECRET_KEY |-> "sk_live"] }

-----------------------------------------------------------------------------
(* Requests *)

Absent == "absent"   \* a body field that is not sent (undefined)

Input(ep, m, sid, em, act, ar) ==
    [endpoint |-> ep, method |-> m, subscriptionId |-> sid, email |-> em,
     action |-> act, autoRefund |-> ar]

\* The requests that later arrivals are drawn from: those whose provider
\* writes can race.  autoRefund absent and autoRefund=false are the same falsy
\* value to the handler and are both FALSE here.
RacingInputs ==
    { Input("cancel", "POST", "sub_1", Absent, Absent, TRUE),
      Input("cancel", "POST", "sub_1", Absent, Absent, FALSE),
      Input("cancel", "POST", "sub_1", Absent, "reactivate", FALSE),
      Input("refund", "POST", "sub_1", Absent, Absent, FALSE) }

\* The requests that the first arrival is drawn from.
RequestInputs ==
    RacingInputs \cup
    { Input("cancel", "POST", "sub_1", Absent, "reactivate", TRUE),
      Input("cancel", "POST", "sub_1", Absent, "pause", FALSE),
      Input("cancel", "POST", Absent, KnownEmail, Absent, TRUE),
      Input("cancel", "POST", Absent, "nobody@example.com", Absent, FALSE),
      Input("cancel", "POST", "sub_x", Absent, Absent, TRUE),
      Input("cancel", "POST", Absent, Absent, Absent, TRUE),
      Input("cancel", "GET", "sub_1", Absent, Absent, TRUE),
      Input("cancel", "OPTIONS", Absent, Absent, Absent, FALSE),
      Input("refund", "POST", Absent, KnownEmail, Absent, FALSE),
      Input("refund", "POST", Absent, Absent, Absent, FALSE),
      Input("refund", "GET", "sub_1", Absent, Absent, FALSE) }

InputsOf(r) == IF r = 1 THEN RequestInputs ELSE RacingInputs

NoInput == Input("none", "none", Absent, Absent, Absent, FALSE)

NoLocal == [subscription |-> NoSub, now |-> 0, customer |-> "none",
            invoice |-> NoInvoice, refund |-> NoRefund, refunded |-> FALSE]

\* refund.amount / 100: pence to pounds, kept exact as pounds and pence.
Pounds_Undivided(amount) == [pounds |-> amount, pence |-> 0]
Pounds(amount) == [pounds |-> amount \div 100, pence |-> amount % 100]

\* A JSON body: `fields` are the keys present, the others hold defaults.
EmptyBody ==
    [fields |-> {}, error |-> "", success |-> FALSE, message |-> "",
     subscriptionId |-> "", refunded |-> FALSE, refundAmount |-> Pounds(0),
     cancelAtPeriodEnd |-> FALSE, currentPeriodEnd |-> 0, cancelled |-> FALSE,
     refundId |-> 0, amount |-> Pounds(0), currency |-> "",
     received |-> FALSE, valid |-> FALSE, status |-> "", customerId |-> "",
     expiryDate |-> [iso8601 |-> 0]]

ErrorBody(msg) == [EmptyBody EXCEPT !.fields = {"error"}, !.error = msg]

NoRes == [status |-> 0, body |-> EmptyBody]

Call(op, arg, flag, ok) == [op |-> op, arg |-> arg, flag |-> flag, ok |-> ok]

Init ==
    /\ clock = 1
    /\ env \in EnvSettings
    /\ customers = << [id |-> "cus_1", email |-> KnownEmail] >>
    /\ \E st \in {"active", "trialing"} :
          subscriptions = [s \in SubIds |->
              [id |-> s, status |-> st, created |-> 0, customer |-> "cus_1",
               current_period_end |-> 31536000, cancel_at_period_end |-> FALSE]]
    /\ \E h \in InvoiceHistories : invoices = [s \in SubIds |-> h]
    /\ refunds = << >>
    /\ pc = [r \in Req |-> "idle"]
    /\ req = [r \in Req |-> NoInput]
    /\ local = [r \in Req |-> NoLocal]
    /\ calls = [r \in Req |-> << >>]
    /\ res = [r \in Req |-> NoRes]
    /\ mail = [r \in Req |-> << >>]

-----------------------------------------------------------------------------
(* Helpers of the handlers *)

Limit(seq, n) == SubSeq(seq, 1, IF Len(seq) < n THEN Len(seq) ELSE n)

Respond(r, st, body) ==
    /\ res' = [res EXCEPT ![r] = [status |-> st, body |-> body]]
    /\ pc' = [pc EXCEPT ![r] = "done"]

Record(r, c) == calls' = [calls EXCEPT ![r] = Append(@, c)]

\* forceTestMode ? TEST_STRIPE_SECRET_KEY : STRIPE_SECRET_KEY
stripeSecretKey(e) ==
    IF e.FORCE_TEST_MODE = "true" THEN e.TEST_STRIPE_SECRET_KEY
                                  ELSE e.STRIPE_SECRET_KEY

\* stripe.customers.list({email, limit: 1}).data
customersList(email) ==
    Limit(SelectSeq(customers, LAMBDA c : c.email = email), 1)

\* The provider's listing order of subscriptions, most recent first.
ListingOrder == << "sub_5", "sub_4", "sub_3", "sub_2", "sub_1" >>

\* The provider's subscriptions of customer cust, in listing order.
subscriptionsOf(cust) ==
    SelectSeq(ListingOrder,
              LAMBDA s : s \in DOMAIN subscriptions /\ subscriptions[s].customer = cust)

\* stripe.subscriptions.list({customer, limit: 1}).data
subscriptionsList(cust) == Limit(subscriptionsOf(cust), 1)

\* (now - subscriptionStartDate): daysSincePurchase times MsPerDay.  The
\* division by MsPerDay is monotone and exact at 7 days, so comparing the
\* milliseconds with 7 * MsPerDay decides the same as the code's comparison.
daysSincePurchaseMs(nowMs, s) == nowMs - s.created * 1000

\* daysSincePurchase <= 7 (cancel handler)
WithinWindow_Strict(ms) == ms < RefundWindowDays * MsPerDay
WithinWindow_Floor(ms) == ms \div MsPerDay <= RefundWindowDays
WithinWindow(ms) == ms <= RefundWindowDays * MsPerDay

\* daysSincePurchase > 7 (refund handler)
WindowExpired_Floor(ms) == ms \div MsPerDay > RefundWindowDays
WindowExpired_Inclusive(ms) == ms >= RefundWindowDays * MsPerDay
WindowExpired(ms) == ms > RefundWindowDays * MsPerDay

\* autoRefund && action !== 'reactivate'
AutoRefundRequested_IgnoresAction(in) == in.autoRefund
AutoRefundRequested_Always(in) == in.action # "reactivate"
AutoRefundRequested(in) == in.autoRefund /\ in.action # "reactivate"

\* stripe.invoices.list({subscription, limit: 1, status: 'paid'}).data
paidInvoicesList_AnyStatus(sid) == Limit(invoices[sid], 1)
paidInvoicesList_Oldest(sid) ==
    LET paid == SelectSeq(invoices[sid], LAMBDA i : i.status = "paid")
    IN  IF paid = << >> THEN paid ELSE << paid[Len(paid)] >>
paidInvoicesList(sid) ==
    Limit(SelectSeq(invoices[sid], LAMBDA i : i.status = "paid"), 1)

\* stripe.invoices.list({subscription, limit: 1}).data
invoicesList(sid) == Limit(invoices[sid], 1)

\* invoices.data.length > 0 && invoices.data[0].charge
HasCharge_Any(data) == Len(data) > 0
HasCharge(data) == Len(data) > 0 /\ data[1].charge # NoCharge

\* The provider calls of the refund branch, in the order of the code.
CancelRefundSteps_Swapped == << "subscriptions.cancel", "refunds.create" >>
CancelRefundSteps == << "refunds.create", "subscriptions.cancel" >>

RefundSteps_Swapped == << "subscriptions.cancel", "refunds.create" >>
RefundSteps == << "refunds.create", "subscriptions.cancel" >>

\* The step after `op` in `steps`, or "respond" after the last one.
NextStep(steps, op) ==
    LET i == CHOOSE k \in 1..Len(steps) : steps[k] = op
    IN  IF i < Len(steps) THEN steps[i + 1] ELSE "respond"

\* cancel_at_period_end of the update: false to reactivate, true otherwise
CancelAtPeriodEndFor_Toggle(in, s) == ~s.cancel_at_period_end
CancelAtPeriodEndFor(in, s) == in.action # "reactivate"

Notification(subject, state) == [subject |-> subject, state |-> state]

-----------------------------------------------------------------------------
(* Both handlers: validation and the subscription lookup *)

\* The method check, the body check and the key check, which run before the
\* first provider call.
Receive(r, in) ==
    /\ pc[r] = "idle"
    /\ \A q \in Req : q < r => pc[q] # "idle"
    /\ req' = [req EXCEPT ![r] = in]
    /\ IF in.method = "OPTIONS"
          THEN Respond(r, 200, EmptyBody)
       ELSE IF in.method # "POST"
          THEN Respond(r, 405, ErrorBody("Method not allowed"))
       ELSE IF in.subscriptionId = Absent /\ in.email = Absent
          THEN Respond(r, 400, ErrorBody("Subscription ID or email required"))
       ELSE IF stripeSecretKey(env) = ""
          THEN Respond(r, 500, ErrorBody("Server configuration error"))
       ELSE /\ pc' = [pc EXCEPT ![r] =
                        IF in.subscriptionId # Absent THEN "subscriptions.retrieve"
                                                      ELSE "customers.list"]
            /\ res' = res
    /\ UNCHANGED << clock, env, provider, local, calls, mail >>

\* The code that follows the lookup, up to the next await: the cancel handler
\* reads the clock (new Date()) only for an auto-refund, the refund handler
\* always.  The clock is read at instant t, not before the last instant read.
Located(r, s) ==
    LET in == req[r]
    IN  IF in.endpoint = "cancel" /\ ~AutoRefundRequested(in)
        THEN /\ local' = [local EXCEPT ![r].subscription = s]
             /\ pc' = [pc EXCEPT ![r] = "subscriptions.update"]
             /\ UNCHANGED << res, clock >>
        ELSE \E t \in clock..Len(ClockValues) :
             LET now == ClockValues[t]
                 ms == daysSincePurchaseMs(now, s)
             IN  /\ clock' = t
                 /\ local' = [local EXCEPT ![r].subscription = s, ![r].now = now]
                 /\ IF in.endpoint = "cancel"
                       THEN /\ pc' = [pc EXCEPT ![r] =
                                   IF WithinWindow(ms) THEN "invoices.list"
                                                       ELSE "subscriptions.update"]
                            /\ res' = res
                    ELSE IF WindowExpired(ms)
                       THEN Respond(r, 400, ErrorBody("Refund window expired"))
                       ELSE /\ pc' = [pc EXCEPT ![r] = "invoices.list"]
                            /\ res' = res

\* subscription = await stripe.subscriptions.retrieve(subscriptionId)
RetrieveSubscription(r) ==
    /\ pc[r] = "subscriptions.retrieve"
    /\ \E ok \in BOOLEAN :
         LET id == req[r].subscriptionId
             found == ok /\ id \in DOMAIN subscriptions
         IN  /\ Record(r, Call("subscriptions.retrieve", id, FALSE, found))
             /\ IF found
                   THEN Located(r, subscriptions[id])
                   ELSE /\ Respond(r, 404, ErrorBody("Subscription not found"))
                        /\ UNCHANGED << local, clock >>
    /\ UNCHANGED << env, provider, req, mail >>

\* customers = await stripe.customers.list({email, limit: 1})
ListCustomers(r) ==
    /\ pc[r] = "customers.list"
    /\ \E ok \in BOOLEAN :
         LET data == customersList(req[r].email)
         IN  /\ Record(r, Call("customers.list", req[r].email, FALSE, ok))
             /\ IF ~ok
                   THEN /\ Respond(r, 500, ErrorBody("Internal server error"))
                        /\ local' = local
                ELSE IF Len(data) = 0
                   THEN /\ Respond(r, 404, ErrorBody("Customer not found"))
                        /\ local' = local
                ELSE /\ local' = [local EXCEPT ![r].customer = data[1].id]
                     /\ pc' = [pc EXCEPT ![r] = "subscriptions.list"]
                     /\ res' = res
    /\ UNCHANGED << clock, env, provider, req, mail >>

\* subscriptions = await stripe.subscriptions.list({customer, limit: 1})
ListSubscriptions(r) ==
    /\ pc[r] = "subscriptions.list"
    /\ \E ok \in BOOLEAN :
         LET data == subscriptionsList(local[r].customer)
         IN  /\ Record(r, Call("subscriptions.list", local[r].customer, FALSE, ok))
             /\ IF ~ok
                   THEN /\ Respond(r, 500, ErrorBody("Internal server error"))
                        /\ UNCHANGED << local, clock >>
                ELSE IF Len(data) = 0
                   THEN /\ Respond(r, 404, ErrorBody("No subscription found"))
                        /\ UNCHANGED << local, clock >>
                ELSE Located(r, subscriptions[data[1]])
    /\ UNCHANGED << env, provider, req, mail >>

-----------------------------------------------------------------------------
(* The cancel/reactivate handler *)

\* The fetch to /api/send-email that is not awaited, and the response of the
\* refund branch.
FinishRefunded(r, rf) ==
    /\ mail' = [mail EXCEPT ![r] =
                  Append(@, Notification("Subscription Cancelled & Refunded", "inflight"))]
    /\ Respond(r, 200,
          [EmptyBody EXCEPT
             !.fields = {"success", "refunded", "refundAmount", "message", "subscriptionId"},
             !.success = TRUE, !.refunded = TRUE,
             !.refundAmount = Pounds(rf.amount),
             !.message = "Subscription cancelled and refunded successfully",
             !.subscriptionId = local[r].subscription.id])

\* catch (refundError) { console.error(...) }: the handler goes on to the
\* period-end update.
CatchRefundError_Rethrow(r) == Respond(r, 500, ErrorBody("Internal server error"))
CatchRefundError_Unanswered(r) ==
    /\ pc' = [pc EXCEPT ![r] = "unhandled rejection"]
    /\ res' = res
CatchRefundError_Retry(r) ==
    /\ pc' = [pc EXCEPT ![r] = "refunds.create"]
    /\ res' = res
CatchRefundError(r) ==
    /\ pc' = [pc EXCEPT ![r] = "subscriptions.update"]
    /\ res' = res

\* invoices = await stripe.invoices.list({..., status: 'paid'}), inside the try
CancelListInvoices(r) ==
    /\ pc[r] = "invoices.list"
    /\ req[r].endpoint = "cancel"
    /\ \E ok \in BOOLEAN :
         LET sid == local[r].subscription.id
             data == paidInvoicesList(sid)
         IN  /\ Record(r, Call("invoices.list", sid, FALSE, ok))
             /\ IF ~ok
                   THEN /\ CatchRefundError(r)
                        /\ local' = local
                ELSE IF HasCharge(data)
                   THEN /\ local' = [local EXCEPT ![r].invoice = data[1]]
                        /\ pc' = [pc EXCEPT ![r] = CancelRefundSteps[1]]
                        /\ res' = res
                ELSE /\ local' = local
                     /\ pc' = [pc EXCEPT ![r] = "subscriptions.update"]
                     /\ res' = res
    /\ UNCHANGED << clock, env, provider, req, mail >>

\* refund = await stripe.refunds.create({charge}); a throw is caught by the
\* catch of the refund branch, which goes on to the period-end update.
CancelCreateRefund(r) ==
    /\ pc[r] = "refunds.create"
    /\ req[r].endpoint = "cancel"
    /\ \E ok \in BOOLEAN :
         LET ch == local[r].invoice.charge
             rf == [id |-> Len(refunds) + 1, charge |-> ch,
                    amount |-> ChargeAmount(ch), currency |-> "gbp"]
             next == NextStep(CancelRefundSteps, "refunds.create")
         IN  /\ Record(r, Call("refunds.create", ch, FALSE, ok))
             /\ IF ok
                   THEN /\ refunds' = Append(refunds, rf)
                        /\ local' = [local EXCEPT ![r].refund = rf, ![r].refunded = TRUE]
                        /\ IF next = "respond"
                              THEN FinishRefunded(r, rf)
                              ELSE /\ pc' = [pc EXCEPT ![r] = next]
                                   /\ UNCHANGED << res, mail >>
                   ELSE /\ CatchRefundError(r)
                        /\ UNCHANGED << refunds, local, mail >>
    /\ UNCHANGED << clock, env, customers, subscriptions, invoices, req >>

\* await stripe.subscriptions.cancel(subscription.id), inside the same try
CancelNow(r) ==
    /\ pc[r] = "subscriptions.cancel"
    /\ req[r].endpoint = "cancel"
    /\ \E ok \in BOOLEAN :
         LET sid == local[r].subscription.id
             next == NextStep(CancelRefundSteps, "subscriptions.cancel")
         IN  /\ Record(r, Call("subscriptions.cancel", sid, FALSE, ok))
             /\ IF ok
                   THEN /\ subscriptions' = [subscriptions EXCEPT ![sid].status = "canceled"]
                        /\ IF next = "respond"
                              THEN FinishRefunded(r, local[r].refund)
                              ELSE /\ pc' = [pc EXCEPT ![r] = next]
                                   /\ UNCHANGED << res, mail >>
                   ELSE /\ CatchRefundError(r)
                        /\ UNCHANGED << subscriptions, mail >>
    /\ UNCHANGED << clock, env, customers, invoices, refunds, req, local >>

\* cancelledSubscription = await stripe.subscriptions.update(...), then the
\* fetch that is not awaited and the response; a throw reaches the outer catch.
CancelUpdate(r) ==
    /\ pc[r] = "subscriptions.update"
    /\ \E ok \in BOOLEAN :
         LET in == req[r]
             sid == local[r].subscription.id
             flag == CancelAtPeriodEndFor(in, subscriptions[sid])
             updated == [subscriptions[sid] EXCEPT !.cancel_at_period_end = flag]
         IN  /\ Record(r, Call("subscriptions.update", sid, flag, ok))
             /\ IF ok
                   THEN /\ subscriptions' = [subscriptions EXCEPT ![sid] = updated]
                        /\ mail' = [mail EXCEPT ![r] = Append(@, Notification(
                                      IF in.action = "reactivate"
                                      THEN "Subscription Reactivated"
                                      ELSE "Subscription Cancellation Request", "inflight"))]
                        /\ Respond(r, 200,
                              [EmptyBody EXCEPT
                                 !.fields = {"success", "message", "subscriptionId",
                                             "cancelAtPeriodEnd", "currentPeriodEnd"},
                                 !.success = TRUE,
                                 !.message = IF in.action = "reactivate"
                                             THEN "Subscription reactivated successfully"
                                             ELSE "Subscription will be cancelled at the end of the current period",
                                 !.subscriptionId = updated.id,
                                 !.cancelAtPeriodEnd = updated.cancel_at_period_end,
                                 !.currentPeriodEnd = updated.current_period_end])
                   ELSE /\ Respond(r, 500, ErrorBody("Internal server error"))
                        /\ UNCHANGED << subscriptions, mail >>
    /\ UNCHANGED << clock, env, customers, invoices, refunds, req, local >>

\* The fetch that was not awaited settles; a rejection is only logged.
SettleMail_Surfaced(r) ==
    /\ \E i \in 1..Len(mail[r]) :
         /\ mail[r][i].state = "inflight"
         /\ \E st \in {"delivered", "failed"} :
              /\ mail' = [mail EXCEPT ![r][i].state = st]
              /\ res' = IF st = "failed"
                           THEN [res EXCEPT ![r] =
                                   [status |-> 500,
                                    body |-> ErrorBody("Internal server error")]]
                           ELSE res
    /\ UNCHANGED << clock, env, provider, pc, req, local, calls >>
SettleMail(r) ==
    /\ \E i \in 1..Len(mail[r]) :
         /\ mail[r][i].state = "inflight"
         /\ \E st \in {"delivered", "failed"} :
              mail' = [mail EXCEPT ![r][i].state = st]
    /\ UNCHANGED << clock, env, provider, pc, req, local, calls, res >>

-----------------------------------------------------------------------------
(* The refund handler *)

\* invoices = await stripe.invoices.list({subscription, limit: 1}), the
\* trialing check and the charge check
RefundListInvoices(r) ==
    /\ pc[r] = "invoices.list"
    /\ req[r].endpoint = "refund"
    /\ \E ok \in BOOLEAN :
         LET sid == local[r].subscription.id
             data == invoicesList(sid)
         IN  /\ Record(r, Call("invoices.list", sid, FALSE, ok))
             /\ IF ~ok
                   THEN /\ Respond(r, 500, ErrorBody("Internal server error"))
                        /\ local' = local
                ELSE IF Len(data) = 0
                   THEN /\ Respond(r, 404, ErrorBody("No payment found for this subscription"))
                        /\ local' = local
                ELSE IF local[r].subscription.status = "trialing"
                   THEN /\ local' = [local EXCEPT ![r].invoice = data[1]]
                        /\ pc' = [pc EXCEPT ![r] = "trial.cancel"]
                        /\ res' = res
                ELSE IF data[1].charge = NoCharge
                   THEN /\ Respond(r, 404, ErrorBody("No charge found to refund"))
                        /\ local' = [local EXCEPT ![r].invoice = data[1]]
                ELSE /\ local' = [local EXCEPT ![r].invoice = data[1]]
                     /\ pc' = [pc EXCEPT ![r] = RefundSteps[1]]
                     /\ res' = res
    /\ UNCHANGED << clock, env, provider, req, mail >>

\* await stripe.subscriptions.cancel(subscription.id) of a trialing subscription
RefundCancelTrial(r) ==
    /\ pc[r] = "trial.cancel"
    /\ \E ok \in BOOLEAN :
         LET sid == local[r].subscription.id
         IN  /\ Record(r, Call("subscriptions.cancel", sid, FALSE, ok))
             /\ IF ok
                   THEN /\ subscriptions' = [subscriptions EXCEPT ![sid].status = "canceled"]
                        /\ pc' = [pc EXCEPT ![r] = "trial.email"]
                        /\ res' = res
                   ELSE /\ Respond(r, 500, ErrorBody("Internal server error"))
                        /\ subscriptions' = subscriptions
    /\ UNCHANGED << clock, env, customers, invoices, refunds, req, local, mail >>

\* try { await fetch(send-email) } catch {}, then the trial response
RefundTrialEmail(r) ==
    /\ pc[r] = "trial.email"
    /\ \E st \in {"delivered", "failed"} :
         mail' = [mail EXCEPT ![r] = Append(@, Notification("Trial Cancellation", st))]
    /\ Respond(r, 200,
          [EmptyBody EXCEPT
             !.fields = {"success", "message", "subscriptionId", "cancelled"},
             !.success = TRUE, !.message = "Trial subscription cancelled",
             !.subscriptionId = local[r].subscription.id, !.cancelled = TRUE])
    /\ UNCHANGED << clock, env, provider, req, local, calls >>

\* refund = await stripe.refunds.create({charge: invoice.charge})
RefundCreateRefund(r) ==
    /\ pc[r] = "refunds.create"
    /\ req[r].endpoint = "refund"
    /\ \E ok \in BOOLEAN :
         LET ch == local[r].invoice.charge
             rf == [id |-> Len(refunds) + 1, charge |-> ch,
                    amount |-> ChargeAmount(ch), currency |-> "gbp"]
             next == NextStep(RefundSteps, "refunds.create")
         IN  /\ Record(r, Call("refunds.create", ch, FALSE, ok))
             /\ IF ok
                   THEN /\ refunds' = Append(refunds, rf)
                        /\ local' = [local EXCEPT ![r].refund = rf, ![r].refunded = TRUE]
                        /\ pc' = [pc EXCEPT ![r] = IF next = "respond" THEN "email" ELSE next]
                        /\ res' = res
                   ELSE /\ Respond(r, 500, ErrorBody("Internal server error"))
                        /\ UNCHANGED << refunds, local >>
    /\ UNCHANGED << clock, env, customers, subscriptions, invoices, req, mail >>

\* await stripe.subscriptions.cancel(subscription.id) after the refund
RefundCancel(r) ==
    /\ pc[r] = "subscriptions.cancel"
    /\ req[r].endpoint = "refund"
    /\ \E ok \in BOOLEAN :
         LET sid == local[r].subscription.id
             next == NextStep(RefundSteps, "subscriptions.cancel")
         IN  /\ Record(r, Call("subscriptions.cancel", sid, FALSE, ok))
             /\ IF ok
                   THEN /\ subscriptions' = [subscriptions EXCEPT ![sid].status = "canceled"]
                        /\ pc' = [pc EXCEPT ![r] = IF next = "respond" THEN "email" ELSE next]
                        /\ res' = res
                   ELSE /\ Respond(r, 500, ErrorBody("Internal server error"))
                        /\ subscriptions' = subscriptions
    /\ UNCHANGED << clock, env, customers, invoices, refunds, req, local, mail >>

\* try { await fetch(send-email) } catch {}, then the refund response
RefundEmail(r) ==
    /\ pc[r] = "email"
    /\ \E st \in {"delivered", "failed"} :
         mail' = [mail EXCEPT ![r] = Append(@, Notification("Refund Request", st))]
    /\ Respond(r, 200,
          [EmptyBody EXCEPT
             !.fields = {"success", "message", "refundId", "subscriptionId",
                         "amount", "currency"},
             !.success = TRUE, !.message = "Refund processed successfully",
             !.refundId = local[r].refund.id,
             !.subscriptionId = local[r].subscription.id,
             !.amount = Pounds(local[r].refund.amount),
             !.currency = "GBP"])
    /\ UNCHANGED << clock, env, provider, req, local, calls >>

-----------------------------------------------------------------------------

Next ==
    \/ \E r \in Req : \E in \in InputsOf(r) : Receive(r, in)
    \/ \E r \in Req : RetrieveSubscription(r)
    \/ \E r \in Req : ListCustomers(r)
    \/ \E r \in Req : ListSubscriptions(r)
    \/ \E r \in Req : CancelListInvoices(r)
    \/ \E r \in Req : CancelCreateRefund(r)
    \/ \E r \in Req : CancelNow(r)
    \/ \E r \in Req : CancelUpdate(r)
    \/ \E r \in Req : SettleMail(r)
    \/ \E r \in Req : RefundListInvoices(r)
    \/ \E r \in Req : RefundCancelTrial(r)
    \/ \E r \in Req : RefundTrialEmail(r)
    \/ \E r \in Req : RefundCreateRefund(r)
    \/ \E r \in Req : RefundCancel(r)
    \/ \E r \in Req : RefundEmail(r)

Spec == Init /\ [][Next]_vars

-----------------------------------------------------------------------------
(* Notions used by the properties *)

SevenDaysMs == 7 * 24 * 60 * 60 * 1000

IsCancel(r) == req[r].endpoint = "cancel" /\ req[r].method = "POST"
IsRefund(r) == req[r].endpoint = "refund" /\ req[r].method = "POST"

\* r asked the cancel handler for a cancellation with autoRefund=true.
IsAutoRefundCancel(r) ==
    IsCancel(r) /\ req[r].autoRefund /\ req[r].action # "reactivate"

\* The lookup of r has found a subscription.
HasLocated(r) == local[r].subscription.id # "none"

\* The time since creation at the instant r read the clock, in ms.
ElapsedMs(r) == local[r].now - local[r].subscription.created * 1000

\* The positions of r's calls of `op`.
CallsOf(r, op) == { i \in 1..Len(calls[r]) : calls[r][i].op = op }

Succeeded(r, op) == \E i \in CallsOf(r, op) : calls[r][i].ok
Failed(r, op) == \E i \in CallsOf(r, op) : ~calls[r][i].ok

NoCallThrew(r) == \A i \in 1..Len(calls[r]) : calls[r][i].ok

Done(r) == pc[r] = "done"

LastCall(r) == calls[r][Len(calls[r])]

-----------------------------------------------------------------------------
(* C1 *)

\* C1: in every request, of the cancel handler or of the refund handler,
\* that calls both refunds.create and subscriptions.cancel, the refund is
\* created first: no call of subscriptions.cancel precedes a call of
\* refunds.create in the same request.
C1_RefundBeforeCancel ==
    \A r \in Req : \A i \in CallsOf(r, "subscriptions.cancel") :
        \A j \in CallsOf(r, "refunds.create") : j < i

\* A cancel request and a refund request have each refunded and cancelled.
C1_Witness ==
    \E r, q \in Req :
        /\ IsAutoRefundCancel(r) /\ IsRefund(q)
        /\ Succeeded(r, "refunds.create") /\ Succeeded(r, "subscriptions.cancel")
        /\ Succeeded(q, "refunds.create") /\ Succeeded(q, "subscriptions.cancel")

-----------------------------------------------------------------------------
(* C2 *)

\* The refunds that cancel requests have created against charge ch.
CancelRefundsOf(ch) ==
    UNION { { << r, i >> : i \in { k \in CallsOf(r, "refunds.create") :
                                     calls[r][k].ok /\ calls[r][k].arg = ch } } :
            r \in { q \in Req : IsAutoRefundCancel(q) } }

\* C2: whatever the interleaving of cancel requests with autoRefund=true for
\* the same subscription, at most one refund is created against a charge.
C2_AtMostOneRefund ==
    \A ch \in {"ch_1", "ch_2"} : Cardinality(CancelRefundsOf(ch)) <= 1

-----------------------------------------------------------------------------
(* C3 *)

\* r's call of refunds.create threw.
RefundThrew(r) == IsAutoRefundCancel(r) /\ Failed(r, "refunds.create")

\* The body of a successful response that is not marked refunded.
IsUnrefundedSuccess(b) == b.success /\ "refunded" \notin b.fields

\* C3 as stated: a cancel request with autoRefund=true whose refunds.create
\* threw never ends in a server error; it answers 200 with success, not
\* marked refunded.
C3_NeverServerError ==
    \A r \in Req : (RefundThrew(r) /\ Done(r)) =>
        (res[r].status = 200 /\ IsUnrefundedSuccess(res[r].body))

\* C3 as amended: after a throw of refunds.create the handler does not answer
\* but goes on to subscriptions.update(cancel_at_period_end: true) as its
\* next provider call; the response is 200 with success, not marked refunded,
\* when that update returns, and 500 only when the update throws too.
C3_FallsBackToPeriodEnd ==
    \A r \in Req : RefundThrew(r) =>
        LET i == CHOOSE k \in CallsOf(r, "refunds.create") : TRUE
        IN  /\ Cardinality(CallsOf(r, "refunds.create")) = 1
            /\ IF Len(calls[r]) = i
                 THEN pc[r] = "subscriptions.update" /\ res[r].status = 0
                 ELSE /\ Len(calls[r]) = i + 1
                      /\ calls[r][i + 1].op = "subscriptions.update"
                      /\ calls[r][i + 1].flag
                      /\ Done(r)
                      /\ IF calls[r][i + 1].ok
                           THEN res[r].status = 200 /\ IsUnrefundedSuccess(res[r].body)
                           ELSE res[r].status = 500

\* A refund creation threw and the request was answered with success.
C3_Witness ==
    \E r \in Req : RefundThrew(r) /\ Done(r) /\ res[r].status = 200
                    /\ res[r].body.cancelAtPeriodEnd

-----------------------------------------------------------------------------
(* C4 *)

\* r is a cancel request with autoRefund=true that found its subscription
\* and read the clock inside the refund window.
EligibleAutoRefund(r) ==
    IsAutoRefundCancel(r) /\ HasLocated(r) /\ ElapsedMs(r) <= SevenDaysMs

\* C4: a cancel request with autoRefund=true that found a trialing
\* subscription inside the refund window calls refunds.create never, and,
\* once answered with no provider call having thrown, has cancelled the
\* subscription immediately (subscriptions.cancel) and not at period end.
C4_TrialCancelledImmediately ==
    \A r \in Req :
        (EligibleAutoRefund(r) /\ local[r].subscription.status = "trialing") =>
            /\ CallsOf(r, "refunds.create") = {}
            /\ (Done(r) /\ NoCallThrew(r)) =>
                  /\ Succeeded(r, "subscriptions.cancel")
                  /\ CallsOf(r, "subscriptions.update") = {}

-----------------------------------------------------------------------------
(* C5 *)

\* r is a cancel request with autoRefund=true that found its subscription
\* and read the clock more than 7 days after the subscription's creation.
ExpiredAutoRefund(r) ==
    IsAutoRefundCancel(r) /\ HasLocated(r) /\ ElapsedMs(r) > SevenDaysMs

\* The calls that a request makes to find its subscription.
LookupOps == {"subscriptions.retrieve", "customers.list", "subscriptions.list"}

\* r's calls since its lookup are at most one subscriptions.update that sets
\* cancel_at_period_end to `flag`.
OnlyUpdates(r, flag) ==
    /\ \A i \in 1..Len(calls[r]) :
          \/ calls[r][i].op \in LookupOps
          \/ calls[r][i].op = "subscriptions.update" /\ calls[r][i].flag = flag
    /\ Cardinality(CallsOf(r, "subscriptions.update")) <= 1

\* r was answered 200 with success and the given cancelAtPeriodEnd, not
\* marked refunded.
AnsweredPeriodEnd(r, flag) ==
    /\ res[r].status = 200
    /\ IsUnrefundedSuccess(res[r].body)
    /\ "cancelAtPeriodEnd" \in res[r].body.fields
    /\ res[r].body.cancelAtPeriodEnd = flag

\* C5: a cancel request with autoRefund=true on a subscription created more
\* than 7 days before now reads no invoice, creates no refund and does not
\* cancel immediately: its only write is subscriptions.update with
\* cancel_at_period_end true, and it is answered with success and
\* cancelAtPeriodEnd=true; an error answer comes only from a throw of that
\* update, never from the expired window.
C5_ExpiredWindowDegrades ==
    \A r \in Req : ExpiredAutoRefund(r) =>
        /\ OnlyUpdates(r, TRUE)
        /\ ~Done(r) => pc[r] = "subscriptions.update"
        /\ Done(r) =>
              /\ LastCall(r).op = "subscriptions.update"
              /\ IF LastCall(r).ok THEN AnsweredPeriodEnd(r, TRUE)
                                    ELSE res[r].status = 500

\* An auto-refund cancel read the clock 10 days after creation and was
\* answered with the period-end cancellation.
C5_Witness ==
    \E r \in Req : /\ ExpiredAutoRefund(r) /\ ElapsedMs(r) = 10 * MsPerDay
                    /\ Done(r) /\ AnsweredPeriodEnd(r, TRUE)
                    /\ subscriptions[local[r].subscription.id].cancel_at_period_end
                    /\ subscriptions[local[r].subscription.id].status = "active"

-----------------------------------------------------------------------------
(* C6 *)

\* r took the refund branch of the cancel handler.
TookRefundBranch(r) == pc[r] = "invoices.list" \/ CallsOf(r, "invoices.list") # {}

\* r was turned away by the refund handler's window check.
RejectedAsExpired(r) ==
    Done(r) /\ res[r].status = 400 /\ res[r].body.error = "Refund window expired"

\* C6: with the clock read t ms after the subscription's creation, a cancel
\* request with autoRefund=true takes the refund branch exactly when
\* t <= 604800000, and the refund handler rejects the request as expired
\* exactly when t > 604800000: 7 days to the millisecond is eligible, one
\* millisecond more is not, in both handlers.
C6_InclusiveBoundary ==
    \A r \in Req :
        /\ (IsAutoRefundCancel(r) /\ HasLocated(r)) =>
              (TookRefundBranch(r) <=> ElapsedMs(r) <= 604800000)
        /\ (IsRefund(r) /\ HasLocated(r)) =>
              (RejectedAsExpired(r) <=> ElapsedMs(r) > 604800000)

\* At exactly 7 days a cancel request took the refund branch and a refund
\* request went on to its invoice; another request, 1 ms later, did not.
C6_Witness ==
    \E r, q \in Req :
        /\ HasLocated(r) /\ ElapsedMs(r) = 604800000
        /\ \/ IsAutoRefundCancel(r) /\ TookRefundBranch(r)
           \/ IsRefund(r) /\ CallsOf(r, "invoices.list") # {}
        /\ HasLocated(q) /\ ElapsedMs(q) = 604800001
        /\ \/ IsAutoRefundCancel(q) /\ ~TookRefundBranch(q) /\ Done(q)
           \/ IsRefund(q) /\ RejectedAsExpired(q)

-----------------------------------------------------------------------------
(* C7 *)

\* The paid invoices of subscription sid.
PaidPositions(sid) ==
    { i \in 1..Len(invoices[sid]) : invoices[sid][i].status = "paid" }

\* The most recent paid invoice of sid (invoices are most recent first).
MostRecentPaid(sid) ==
    invoices[sid][CHOOSE i \in PaidPositions(sid) :
                      \A j \in PaidPositions(sid) : i <= j]

\* sid has a paid invoice and the most recent one carries a charge.
HasPaidCharge(sid) ==
    PaidPositions(sid) # {} /\ MostRecentPaid(sid).charge # NoCharge

\* The operations of r's calls after its lookup, in order.
OpsAfterLookup(r) ==
    LET all == [i \in 1..Len(calls[r]) |-> calls[r][i].op]
    IN  SelectSeq(all, LAMBDA op : op \notin LookupOps)

\* C7: a cancel request with autoRefund=true that found a subscription that
\* is not trialing, inside the refund window, whose most recent paid invoice
\* has a charge, and that was answered with no provider call having thrown,
\* has read the invoices, created a refund against that charge and then
\* cancelled the subscription, whose status is canceled; the answer is 200
\* with success=true, refunded=true and refundAmount 4.99 (499 pence).
C7_RefundThenCancel ==
    \A r \in Req :
        LET sid == local[r].subscription.id
        IN  ( /\ EligibleAutoRefund(r)
              /\ local[r].subscription.status # "trialing"
              /\ HasPaidCharge(sid)
              /\ Done(r) /\ NoCallThrew(r) ) =>
            /\ OpsAfterLookup(r) =
                  << "invoices.list", "refunds.create", "subscriptions.cancel" >>
            /\ LET c == calls[r][Len(calls[r]) - 1]
               IN  /\ c.arg = MostRecentPaid(sid).charge
                   /\ \E k \in 1..Len(refunds) : refunds[k].charge = c.arg
            /\ subscriptions[sid].status = "canceled"
            /\ res[r].status = 200
            /\ res[r].body.success /\ res[r].body.refunded
            /\ {"success", "refunded", "refundAmount"} \subseteq res[r].body.fields
            /\ res[r].body.refundAmount = [pounds |-> 4, pence |-> 99]

\* An active subscription with two paid charges was refunded on the latest
\* one, ch_2, 3 days after its creation, and cancelled.
C7_Witness ==
    \E r \in Req :
        /\ EligibleAutoRefund(r) /\ ElapsedMs(r) = 3 * MsPerDay
        /\ local[r].subscription.status = "active"
        /\ Done(r) /\ res[r].body.refunded
        /\ Len(refunds) = 1 /\ refunds[1].charge = "ch_2"
        /\ subscriptions["sub_1"].status = "canceled"

-----------------------------------------------------------------------------
(* C8 *)

\* C8: a cancel request with autoRefund=true that found a subscription that
\* is not trialing, inside the refund window, with no paid invoice or with a
\* most recent paid invoice that has no charge, creates no refund and does
\* not cancel immediately: after the invoice lookup its only call is
\* subscriptions.update with cancel_at_period_end true, and when that update
\* returns the answer is success with cancelAtPeriodEnd=true.
C8_NothingToRefund ==
    \A r \in Req :
        LET sid == local[r].subscription.id
        IN  ( /\ EligibleAutoRefund(r)
              /\ local[r].subscription.status # "trialing"
              /\ ~HasPaidCharge(sid) ) =>
            /\ CallsOf(r, "refunds.create") = {}
            /\ CallsOf(r, "subscriptions.cancel") = {}
            /\ pc[r] \in {"invoices.list", "subscriptions.update", "done"}
            /\ Done(r) =>
                  /\ OpsAfterLookup(r) = << "invoices.list", "subscriptions.update" >>
                  /\ LastCall(r).flag
                  /\ IF LastCall(r).ok THEN AnsweredPeriodEnd(r, TRUE)
                                        ELSE res[r].status = 500

\* An active subscription whose latest paid invoice has no charge, though an
\* older one has, got the period-end cancellation and no refund.
C8_Witness ==
    \E r \in Req :
        /\ EligibleAutoRefund(r) /\ local[r].subscription.status = "active"
        /\ invoices["sub_1"] = << Invoice("paid", NoCharge), Invoice("paid", "ch_1") >>
        /\ NoCallThrew(r) /\ Done(r) /\ AnsweredPeriodEnd(r, TRUE)
        /\ refunds = << >>

-----------------------------------------------------------------------------
(* C9 *)

\* r is a cancel request without autoRefund (false or absent).
IsPlainCancel(r) ==
    IsCancel(r) /\ ~req[r].autoRefund /\ req[r].action # "reactivate"

\* This step is a step of request r's handler.
StepOf(r) == pc[r] # "idle" /\ (pc'[r] # pc[r] \/ calls'[r] # calls[r])

\* C9: every step of a cancel request without autoRefund leaves refunds,
\* invoices, customers and every subscription's status as they are; the only
\* change it makes is cancel_at_period_end := true on its own subscription;
\* it calls nothing but its lookup and subscriptions.update, and when it is
\* answered 200 the flag is true at the provider and in the answer.
C9_PlainCancelFrame ==
    [][ \A r \in Req : (IsPlainCancel(r) /\ StepOf(r)) =>
          LET sid == local'[r].subscription.id
          IN  /\ refunds' = refunds /\ invoices' = invoices /\ customers' = customers
              /\ \A s \in SubIds :
                    \/ subscriptions'[s] = subscriptions[s]
                    \/ /\ s = sid
                       /\ subscriptions'[s] =
                            [subscriptions[s] EXCEPT !.cancel_at_period_end = TRUE]
              /\ \A i \in 1..Len(calls'[r]) :
                    calls'[r][i].op \in LookupOps \cup {"subscriptions.update"}
              /\ res'[r].status = 200 =>
                    /\ subscriptions'[sid].cancel_at_period_end
                    /\ res'[r].body.success /\ res'[r].body.cancelAtPeriodEnd
                    /\ "refunded" \notin res'[r].body.fields
      ]_vars

\* A cancel without autoRefund was answered with success on an active
\* subscription that is now flagged and still active.
C9_Witness ==
    \E r \in Req :
        /\ IsPlainCancel(r) /\ Done(r) /\ AnsweredPeriodEnd(r, TRUE)
        /\ subscriptions["sub_1"].cancel_at_period_end
        /\ subscriptions["sub_1"].status = "active"
        /\ refunds = << >>

-----------------------------------------------------------------------------
(* C10 *)

\* r was answered by the period-end branch: its update returned.
UpdatedOk(r) ==
    Done(r) /\ res[r].status = 200 /\ calls[r] # << >>
            /\ LastCall(r).op = "subscriptions.update"

\* Two answered requests for the same action on the same subscription got
\* the same answer, whose cancelAtPeriodEnd is false for reactivate and true
\* for cancel.
SameAnswers ==
    \A r, q \in Req :
        ( /\ UpdatedOk(r) /\ UpdatedOk(q)
          /\ (req[r].action = "reactivate") = (req[q].action = "reactivate")
          /\ local[r].subscription.id = local[q].subscription.id ) =>
        /\ res[r].body.success = res[q].body.success
        /\ res[r].body.cancelAtPeriodEnd = res[q].body.cancelAtPeriodEnd
        /\ res[r].body.currentPeriodEnd = res[q].body.currentPeriodEnd
        /\ res[r].body.subscriptionId = res[q].body.subscriptionId
        /\ res[r].body.fields = res[q].body.fields
        /\ res[r].body.cancelAtPeriodEnd = (req[r].action # "reactivate")

\* An update that returns sets cancel_at_period_end to the request's target
\* and nothing else, so that on a subscription already at the target the
\* provider's state does not change.
UpdateSetsTarget ==
    \A r \in Req :
        (pc[r] = "subscriptions.update" /\ res'[r].status = 200) =>
            LET sid == local[r].subscription.id
                target == req[r].action # "reactivate"
            IN  /\ subscriptions' =
                     [subscriptions EXCEPT ![sid].cancel_at_period_end = target]
                /\ subscriptions[sid].cancel_at_period_end = target =>
                     subscriptions' = subscriptions
                /\ refunds' = refunds /\ invoices' = invoices
                /\ res'[r].body.cancelAtPeriodEnd = target

\* C10: reactivate and period-end cancel are idempotent: issued again on the
\* same subscription the request gets the same answer and leaves the
\* provider's state as the first one left it (cancelAtPeriodEnd false after
\* reactivate, true after cancel); reactivating with no cancellation pending
\* succeeds and changes nothing.
C10_Idempotent == []SameAnswers /\ [][UpdateSetsTarget]_vars

\* Two reactivations were answered with the same success and the
\* subscription is not flagged for cancellation.
C10_Witness ==
    \E r, q \in Req :
        /\ r # q /\ UpdatedOk(r) /\ UpdatedOk(q)
        /\ req[r].action = "reactivate" /\ req[q].action = "reactivate"
        /\ res[r] = res[q]
        /\ ~subscriptions["sub_1"].cancel_at_period_end

-----------------------------------------------------------------------------
(* The webhook handler (src/api/verify-license.js, lines 134-201) *)

\* Settings of process.env for the webhook: both secrets set; no webhook
\* secret.
WebhookEnvSettings ==
    { [STRIPE_SECRET_KEY |-> "sk_live", STRIPE_WEBHOOK_SECRET |-> "whsec_1"],
      [STRIPE_SECRET_KEY |-> "sk_live", STRIPE_WEBHOOK_SECRET |-> ""] }

\* A call of the webhook: its method, the secret its stripe-signature header
\* was computed with (Absent: no header), and the event in its body:
\* event.type, event.data.object.mode and event.data.object.subscription.
Delivery(m, sig, type, mode, sub) ==
    [endpoint |-> "webhook", method |-> m, signature |-> sig,
     type |-> type, mode |-> mode, subscription |-> sub]

WebhookInputs ==
    { Delivery("GET",  "whsec_1", "checkout.session.completed", "subscription", "sub_1"),
      Delivery("POST", "whsec_1", "checkout.session.completed", "subscription", "sub_1"),
      Delivery("POST", "whsec_1", "checkout.session.completed", "subscription", "sub_x"),
      Delivery("POST", "whsec_1", "checkout.session.completed", "subscription", Absent),
      Delivery("POST", "whsec_1", "checkout.session.completed", "payment", "sub_1"),
      Delivery("POST", "whsec_1", "checkout.session.completed", "payment", Absent),
      Delivery("POST", "whsec_1", "customer.subscription.updated", Absent, Absent),
      Delivery("POST", "whsec_1", "customer.subscription.deleted", Absent, Absent),
      Delivery("POST", "whsec_1", "invoice.paid", Absent, "sub_1"),
      Delivery("POST", "whsec_forged", "checkout.session.completed", "subscription", "sub_1"),
      Delivery("POST", "whsec_forged", "customer.subscription.deleted", Absent, Absent),
      Delivery("POST", Absent, "checkout.session.completed", "subscription", "sub_1"),
      Delivery("POST", "", "invoice.paid", Absent, "sub_1") }

\* The handler's locals: event (let event) and the subscription retrieved.
NoEvent == "none"

WebhookLocal == [event |-> NoEvent, subscription |-> NoSub]

\* res.status(200).json({ received: true })
ReceivedBody == [EmptyBody EXCEPT !.fields = {"received"}, !.received = TRUE]

\* stripe.webhooks.constructEvent(req.body, sig, webhookSecret) returns the
\* event when the signature was computed with webhookSecret, and throws
\* otherwise.
constructEvent_AcceptAll(d, webhookSecret) == TRUE
constructEvent(d, webhookSecret) == d.signature = webhookSecret

\* case 'checkout.session.completed' with
\* session.mode === 'subscription' && session.subscription
RetrievesSubscription_AnyMode(d) ==
    d.type = "checkout.session.completed" /\ d.subscription # Absent
RetrievesSubscription(d) ==
    /\ d.type = "checkout.session.completed"
    /\ d.mode = "subscription"
    /\ d.subscription # Absent

\* catch (error) { console.error(...) } around the retrieval: the handler
\* goes on to the acknowledgment.
CatchRetrieveError_Rethrow(r) == Respond(r, 500, ErrorBody("Internal server error"))
CatchRetrieveError(r) == Respond(r, 200, ReceivedBody)

WebhookInit ==
    /\ clock = 1
    /\ env \in WebhookEnvSettings
    /\ customers = << [id |-> "cus_1", email |-> KnownEmail] >>
    /\ \E st \in {"active", "trialing", "incomplete"} :
          subscriptions = [s \in SubIds |->
              [id |-> s, status |-> st, created |-> 0, customer |-> "cus_1",
               current_period_end |-> 31536000, cancel_at_period_end |-> FALSE]]
    /\ invoices = [s \in SubIds |-> << Invoice("paid", "ch_1") >>]
    /\ refunds = << >>
    /\ pc = [r \in Req |-> "idle"]
    /\ req = [r \in Req |-> NoInput]
    /\ local = [r \in Req |-> WebhookLocal]
    /\ calls = [r \in Req |-> << >>]
    /\ res = [r \in Req |-> NoRes]
    /\ mail = [r \in Req |-> << >>]

\* The method check, the configuration check, the signature verification and
\* the switch on event.type, up to the retrieval or to the acknowledgment.
WebhookReceive(r, d) ==
    /\ pc[r] = "idle"
    /\ \A q \in Req : q < r => pc[q] # "idle"
    /\ req' = [req EXCEPT ![r] = d]
    /\ IF d.method # "POST"
          THEN /\ Respond(r, 405, ErrorBody("Method not allowed"))
               /\ local' = local
       ELSE IF env.STRIPE_SECRET_KEY = "" \/ env.STRIPE_WEBHOOK_SECRET = ""
          THEN /\ Respond(r, 500, ErrorBody("Server configuration error"))
               /\ local' = local
       ELSE IF ~constructEvent(d, env.STRIPE_WEBHOOK_SECRET)
          THEN /\ Respond(r, 400, ErrorBody("Webhook Error"))
               /\ local' = local
       ELSE /\ local' = [local EXCEPT ![r].event = d.type]
            /\ IF RetrievesSubscription(d)
                  THEN /\ pc' = [pc EXCEPT ![r] = "webhook.retrieve"]
                       /\ res' = res
                  ELSE Respond(r, 200, ReceivedBody)
    /\ UNCHANGED << clock, env, provider, calls, mail >>

\* subscription = await stripe.subscriptions.retrieve(session.subscription)
\* inside try/catch, then the acknowledgment
WebhookRetrieve(r) ==
    /\ pc[r] = "webhook.retrieve"
    /\ \E ok \in BOOLEAN :
         LET id == req[r].subscription
             found == ok /\ id \in DOMAIN subscriptions
         IN  /\ Record(r, Call("subscriptions.retrieve", id, FALSE, found))
             /\ IF found
                   THEN /\ local' = [local EXCEPT ![r].subscription = subscriptions[id]]
                        /\ Respond(r, 200, ReceivedBody)
                   ELSE /\ local' = local
                        /\ CatchRetrieveError(r)
    /\ UNCHANGED << clock, env, provider, req, mail >>

WebhookNext ==
    \/ \E r \in Req : \E d \in WebhookInputs : WebhookReceive(r, d)
    \/ \E r \in Req : WebhookRetrieve(r)

WebhookSpec == WebhookInit /\ [][WebhookNext]_vars

\* r is a call of the webhook.
IsWebhook(r) == req[r].endpoint = "webhook"

\* r is a POST to a configured webhook: its signature gets verified.
SignatureChecked(r) ==
    /\ IsWebhook(r) /\ req[r].method = "POST"
    /\ env.STRIPE_SECRET_KEY # "" /\ env.STRIPE_WEBHOOK_SECRET # ""

\* The signature of r was computed with the shared secret.
SignedWithSecret(r) == req[r].signature = env.STRIPE_WEBHOOK_SECRET

Acknowledged(r) ==
    /\ res[r].status = 200
    /\ res[r].body.fields = {"received"}
    /\ res[r].body.received

-----------------------------------------------------------------------------
(* C11 *)

\* C11: a webhook call whose signature does not verify against the shared
\* secret is answered with the error status 400 and an error body, never
\* with {received: true}; its event is never dispatched (the handler holds
\* no event) and it makes no provider call, so no subscription is read.
C11_InvalidSignatureRejected ==
    \A r \in Req : (SignatureChecked(r) /\ ~SignedWithSecret(r)) =>
        /\ Done(r)
        /\ res[r].status = 400
        /\ res[r].body.fields = {"error"}
        /\ ~res[r].body.received
        /\ local[r].event = NoEvent
        /\ local[r].subscription = NoSub
        /\ calls[r] = << >>

\* A checkout.session.completed event for sub_1 signed with another secret,
\* and one with no signature header, were rejected.
C11_Witness ==
    \E r, q \in Req :
        /\ SignatureChecked(r) /\ req[r].signature = "whsec_forged"
        /\ req[r].type = "checkout.session.completed"
        /\ req[r].subscription = "sub_1"
        /\ res[r].status = 400 /\ calls[r] = << >>
        /\ SignatureChecked(q) /\ req[q].signature = Absent
        /\ res[q].status = 400

-----------------------------------------------------------------------------
(* C12 *)

\* r passed the signature verification.
Verified(r) == SignatureChecked(r) /\ SignedWithSecret(r)

\* C12: a webhook call that passed the signature verification is answered
\* with 200 {received: true} and with nothing else, whatever its event type
\* and also when the subscription retrieval of checkout.session.completed
\* threw; until then it is waiting for that retrieval.
C12_AlwaysAcknowledged ==
    \A r \in Req : Verified(r) =>
        /\ local[r].event = req[r].type
        /\ IF Done(r) THEN Acknowledged(r)
                      ELSE pc[r] = "webhook.retrieve" /\ res[r].status = 0

\* A verified checkout.session.completed whose retrieval threw was
\* acknowledged, and so was a verified event of an unrecognised type.
C12_Witness ==
    \E r, q \in Req :
        /\ Verified(r) /\ Failed(r, "subscriptions.retrieve") /\ Acknowledged(r)
        /\ Verified(q) /\ req[q].type = "invoice.paid" /\ Acknowledged(q)

-----------------------------------------------------------------------------
(* C13 *)

\* The only provider call of a webhook call is one subscriptions.retrieve of
\* the session's subscription, made for a verified checkout.session.completed
\* with mode subscription and a subscription reference.
OnlyCheckoutRetrieves ==
    \A r \in Req : (IsWebhook(r) /\ calls[r] # << >>) =>
        /\ Verified(r)
        /\ req[r].type = "checkout.session.completed"
        /\ req[r].mode = "subscription"
        /\ req[r].subscription # Absent
        /\ Len(calls[r]) = 1
        /\ calls[r][1].op = "subscriptions.retrieve"
        /\ calls[r][1].arg = req[r].subscription

\* C13: a verified event of type customer.subscription.updated,
\* customer.subscription.deleted or of an unrecognised type makes no provider
\* call; the only call the webhook ever makes is the retrieval of the
\* subscription of a checkout.session.completed with mode subscription and a
\* subscription reference, and no step of the webhook changes the provider's
\* customers, subscriptions, invoices or refunds.
C13_NoCallNoWrite == []OnlyCheckoutRetrieves /\ [][provider' = provider]_vars

\* Verified events of an unrecognised type and of type
\* customer.subscription.deleted were acknowledged with no provider call, and
\* a verified checkout.session.completed retrieved its subscription.
C13_Witness ==
    \E r, q \in Req :
        /\ Verified(r) /\ Done(r) /\ calls[r] = << >>
        /\ req[r].type \in {"invoice.paid", "customer.subscription.deleted"}
        /\ Verified(q) /\ Succeeded(q, "subscriptions.retrieve")
        /\ local[q].subscription.id = "sub_1"

-----------------------------------------------------------------------------
(* The license check (src/api/verify-license.js, lines 4-128), its earlier  *)
(* variant (src/unnamed/part_001) and the subscription confirmation        *)
(* (src/api/confirm-subscription.js, lines 4-53), run next to the          *)
(* lifecycle handlers.                                                     *)

\* Other spellings of the known email.
MixedCaseEmail == "User@Example.com"
PaddedEmail == " user@example.com "

\* String.prototype.toLowerCase and String.prototype.trim on the strings of
\* the model: every other string is lower-case and has no surrounding space.
toLowerCase(str) == IF str = MixedCaseEmail THEN KnownEmail ELSE str
trim(str) == IF str = PaddedEmail THEN KnownEmail ELSE str

\* The subscriptions of the provider: sub_2 is listed before sub_1.
LicenseSubIds == {"sub_1", "sub_2"}

\* current_period_end in seconds: 7 days after creation, and a year after.
PeriodEnds == {7 * 24 * 60 * 60, 31536000}

\* Settings of process.env: production keys only; test mode forced without
\* a test key.
LicenseEnvSettings ==
    { [FORCE_TEST_MODE |-> "",     TEST_STRIPE_SECRET_KEY |-> "", STRIPE_SECRET_KEY |-> "sk_live"],
      [FORCE_TEST_MODE |-> "true", TEST_STRIPE_SECRET_KEY |-> "", STRIPE_SECRET_KEY |-> "sk_live"] }

\* The body of a license check: licenseKey and its typeof.
Check(ep, m, key, type) ==
    [endpoint |-> ep, method |-> m, licenseKey |-> key, typeofKey |-> type]

\* Requests to the lifecycle handlers.
LifecycleInputs ==
    { Input("cancel", "POST", "sub_1", Absent, Absent, FALSE),
      Input("cancel", "POST", "sub_1", Absent, Absent, TRUE),
      Input("cancel", "POST", Absent, KnownEmail, Absent, FALSE),
      Input("cancel", "POST", Absent, MixedCaseEmail, Absent, FALSE),
      Input("cancel", "POST", "sub_x", Absent, Absent, FALSE),
      Input("cancel", "POST", Absent, Absent, Absent, FALSE),
      Input("cancel", "GET", "sub_1", Absent, Absent, FALSE),
      Input("cancel", "OPTIONS", Absent, Absent, Absent, FALSE),
      Input("refund", "POST", "sub_1", Absent, Absent, FALSE),
      Input("refund", "POST", Absent, KnownEmail, Absent, FALSE),
      Input("refund", "POST", Absent, PaddedEmail, Absent, FALSE),
      Input("refund", "POST", Absent, Absent, Absent, FALSE),
      Input("refund", "PUT", "sub_1", Absent, Absent, FALSE),
      Input("refund", "OPTIONS", "sub_1", Absent, Absent, FALSE) }

\* Requests to the license check, to its earlier variant and to the
\* subscription confirmation.
CheckInputs ==
    { Check("license", "POST", "sub_1", "string"),
      Check("license", "POST", "sub_x", "string"),
      Check("license", "POST", KnownEmail, "string"),
      Check("license", "POST", MixedCaseEmail, "string"),
      Check("license", "POST", PaddedEmail, "string"),
      Check("license", "POST", Absent, "undefined"),
      Check("license", "POST", "12345", "number"),
      Check("license", "GET", "sub_1", "string"),
      Check("license", "OPTIONS", Absent, "undefined"),
      Check("license.earlier", "POST", "sub_1", "string"),
      Check("license.earlier", "POST", KnownEmail, "string"),
      Check("license.earlier", "POST", Absent, "undefined"),
      Check("license.earlier", "GET", "sub_1", "string"),
      Input("confirm", "POST", "sub_1", Absent, Absent, FALSE),
      Input("confirm", "POST", "sub_x", Absent, Absent, FALSE),
      Input("confirm", "POST", Absent, Absent, Absent, FALSE),
      Input("confirm", "GET", "sub_1", Absent, Absent, FALSE) }

\* The first request is a lifecycle request or a check, the later ones are
\* checks.
LifecycleInputsOf(r) == IF r = 1 THEN LifecycleInputs ELSE {}

\* The handler's locals, with the customers still to try (customers.data).
LicenseLocal == [customers |-> << >>] @@ NoLocal

LicenseInit ==
    /\ clock = 1
    /\ env \in LicenseEnvSettings
    /\ customers \in
          { << [id |-> "cus_1", email |-> KnownEmail] >>,
            << [id |-> "cus_2", email |-> KnownEmail],
               [id |-> "cus_1", email |-> KnownEmail] >> }
    /\ \E st \in {"active", "trialing", "canceled"} : \E end \in PeriodEnds :
          subscriptions = [s \in LicenseSubIds |->
              IF s = "sub_1"
              THEN [id |-> s, status |-> st, created |-> 0, customer |-> "cus_1",
                    current_period_end |-> end, cancel_at_period_end |-> FALSE]
              ELSE [id |-> s, status |-> "past_due", created |-> 0,
                    customer |-> customers[1].id,
                    current_period_end |-> 31536000, cancel_at_period_end |-> FALSE]]
    /\ invoices = [s \in LicenseSubIds |->
                     IF s = "sub_1" THEN << Invoice("paid", "ch_1") >> ELSE << >>]
    /\ refunds = << >>
    /\ pc = [r \in Req |-> "idle"]
    /\ req = [r \in Req |-> NoInput]
    /\ local = [r \in Req |-> LicenseLocal]
    /\ calls = [r \in Req |-> << >>]
    /\ res = [r \in Req |-> NoRes]
    /\ mail = [r \in Req |-> << >>]

\* new Date(subscription.current_period_end * 1000): an instant, kept in
\* seconds (the product is beyond the integers of the model checker).
expiryDateOf(s) == [epochSeconds |-> s.current_period_end]

\* expiryDate.toISOString(): the ISO-8601 rendering of an instant, kept as the
\* instant under a tag.
toISOString(date) == [iso8601 |-> date.epochSeconds]

\* res.status(...).json({ valid: false, error }) of the license check
InvalidBody(msg) ==
    [EmptyBody EXCEPT !.fields = {"valid", "error"}, !.error = msg]

\* { valid: false, error: 'Subscription is not active', status }
NotActiveBody(s) ==
    [EmptyBody EXCEPT !.fields = {"valid", "error", "status"},
                      !.error = "Subscription is not active", !.status = s.status]

\* { valid: false, error: 'Subscription has expired', expiryDate }
ExpiredBody(expiryDate) ==
    [EmptyBody EXCEPT !.fields = {"valid", "error", "expiryDate"},
                      !.error = "Subscription has expired",
                      !.expiryDate = toISOString(expiryDate)]

\* The fields of the valid answer of each handler.
ValidFields(ep) ==
    {"valid", "subscriptionId", "customerId", "status", "expiryDate", "currentPeriodEnd"}
    \cup (IF ep = "license"
          THEN {"cancelAtPeriodEnd", "email", "created", "trialEnd"} ELSE {})

\* { valid: true, subscriptionId, customerId, status, expiryDate, ... }
ValidBody(ep, s) ==
    [EmptyBody EXCEPT !.fields = ValidFields(ep), !.valid = TRUE,
                      !.subscriptionId = s.id, !.customerId = s.customer,
                      !.status = s.status,
                      !.expiryDate = toISOString(expiryDateOf(s)),
                      !.currentPeriodEnd = s.current_period_end,
                      !.cancelAtPeriodEnd = s.cancel_at_period_end]

\* The identifiers that are declared where the license check builds its
\* valid answer.
DeclaredIdentifiers ==
    {"req", "res", "licenseKey", "forceTestMode", "stripeSecretKey", "stripe",
     "subscription", "expiryDate", "now"}

\* The identifiers that the object literal of the valid answer reads.
ValidAnswerReads(ep) ==
    {"subscription", "expiryDate"}
    \cup (IF ep = "license" THEN {"customerEmail", "normalizedLicenseKey"} ELSE {})

\* Reading an identifier that is declared nowhere throws a ReferenceError.
ThrowsReferenceError(ep) == ValidAnswerReads(ep) \ DeclaredIdentifiers # {}

\* subscription.status !== 'active' && subscription.status !== 'trialing'
NotActive_Never(s) == FALSE
NotActive(s) == s.status # "active" /\ s.status # "trialing"

\* expiryDate < now, with now in ms: current_period_end * 1000 < now, which
\* for integers is current_period_end <= (now - 1) \div 1000.
HasExpired_Inclusive(s, now) == expiryDateOf(s).epochSeconds <= now \div 1000
HasExpired(s, now) == expiryDateOf(s).epochSeconds <= (now - 1) \div 1000

\* !licenseKey || typeof licenseKey !== 'string'
LicenseKeyMissing_Never(in) == FALSE
LicenseKeyMissing(in) == in.licenseKey = Absent \/ in.typeofKey # "string"

\* The method check, the body check and the key check of the license check,
\* of its earlier variant and of the subscription confirmation.
CheckReceive(r, in) ==
    /\ pc[r] = "idle"
    /\ \A q \in Req : q < r => pc[q] # "idle"
    /\ req' = [req EXCEPT ![r] = in]
    /\ IF in.method # "POST"
          THEN Respond(r, 405, ErrorBody("Method not allowed"))
       ELSE IF in.endpoint = "confirm"
          THEN IF in.subscriptionId = Absent
                  THEN Respond(r, 400, ErrorBody("Subscription ID required"))
               ELSE IF env.STRIPE_SECRET_KEY = ""
                  THEN Respond(r, 500, ErrorBody("Server configuration error"))
               ELSE /\ pc' = [pc EXCEPT ![r] = "confirm.retrieve"]
                    /\ res' = res
       ELSE IF LicenseKeyMissing(in)
          THEN Respond(r, 400, ErrorBody("License key required"))
       ELSE IF (IF in.endpoint = "license" THEN stripeSecretKey(env)
                                           ELSE env.STRIPE_SECRET_KEY) = ""
          THEN Respond(r, 500, ErrorBody("Server configuration error"))
       ELSE /\ pc' = [pc EXCEPT ![r] = "license.retrieve"]
            /\ res' = res
    /\ UNCHANGED << clock, env, provider, local, calls, mail >>

\* The code of the license check that follows the lookup of subscription s:
\* the status check, the expiry check against new Date(), and the answer.
LicenseAnswer(r, s) ==
    IF NotActive(s)
    THEN /\ local' = [local EXCEPT ![r].subscription = s]
         /\ Respond(r, 200, NotActiveBody(s))
         /\ clock' = clock
    ELSE \E t \in clock..Len(ClockValues) :
         LET now == ClockValues[t]
         IN  /\ clock' = t
             /\ local' = [local EXCEPT ![r].subscription = s, ![r].now = now]
             /\ IF HasExpired(s, now)
                   THEN Respond(r, 200, ExpiredBody(expiryDateOf(s)))
                ELSE IF ThrowsReferenceError(req[r].endpoint)
                   THEN Respond(r, 500, InvalidBody("Error verifying license key"))
                ELSE Respond(r, 200, ValidBody(req[r].endpoint, s))

\* No subscription was found: 404 { valid: false, error }
LicenseNotFound(r) ==
    Respond(r, 404, InvalidBody("License key not found or subscription not active"))

\* subscription = await stripe.subscriptions.retrieve(licenseKey); a throw
\* leads to the lookup by email.
LicenseRetrieve(r) ==
    /\ pc[r] = "license.retrieve"
    /\ \E ok \in BOOLEAN :
         LET key == req[r].licenseKey
             found == ok /\ key \in DOMAIN subscriptions
         IN  /\ Record(r, Call("subscriptions.retrieve", key, FALSE, found))
             /\ IF found
                   THEN LicenseAnswer(r, subscriptions[key])
                   ELSE /\ pc' = [pc EXCEPT ![r] = "license.customers"]
                        /\ UNCHANGED << local, res, clock >>
    /\ UNCHANGED << env, provider, req, mail >>

\* The email that the license check lists customers by:
\* licenseKey.toLowerCase().trim(); the earlier variant passes licenseKey.
ListedEmail(in) ==
    IF in.endpoint = "license" THEN trim(toLowerCase(in.licenseKey))
                               ELSE in.licenseKey

\* limit of customers.list and of subscriptions.list: 10, and 1 in the
\* earlier variant.
ListLimit(ep) == IF ep = "license" THEN 10 ELSE 1

\* customers = await stripe.customers.list({email, limit}); a throw reaches
\* catch (stripeError).
LicenseListCustomers(r) ==
    /\ pc[r] = "license.customers"
    /\ \E ok \in BOOLEAN :
         LET email == ListedEmail(req[r])
             data == Limit(SelectSeq(customers, LAMBDA c : c.email = email),
                           ListLimit(req[r].endpoint))
         IN  /\ Record(r, Call("customers.list", email, FALSE, ok))
             /\ IF ~ok
                   THEN /\ Respond(r, 500, InvalidBody("Error verifying license key"))
                        /\ local' = local
                ELSE IF Len(data) = 0
                   THEN /\ LicenseNotFound(r)
                        /\ local' = local
                ELSE /\ local' = [local EXCEPT ![r].customers = data]
                     /\ pc' = [pc EXCEPT ![r] = "license.subscriptions"]
                     /\ res' = res
    /\ UNCHANGED << clock, env, provider, req, mail >>

\* subscriptions.data.find(sub => active or trialing) of the license check;
\* subscriptions.data of the earlier variant, which lists with
\* status: 'active' and limit 1.
ActiveSubs(ep, cust) ==
    IF ep = "license"
    THEN SelectSeq(Limit(subscriptionsOf(cust), 10),
                   LAMBDA s : ~NotActive(subscriptions[s]))
    ELSE Limit(SelectSeq(subscriptionsOf(cust),
                         LAMBDA s : subscriptions[s].status = "active"), 1)

\* subscriptions = await stripe.subscriptions.list({customer, ...}) for the
\* next customer of the loop: the first active or trialing subscription ends
\* the loop; with none the loop goes on to the next customer (the earlier
\* variant looks at customers.data[0] only).
LicenseListSubscriptions(r) ==
    /\ pc[r] = "license.subscriptions"
    /\ \E ok \in BOOLEAN :
         LET cust == Head(local[r].customers).id
             rest == Tail(local[r].customers)
             found == ActiveSubs(req[r].endpoint, cust)
         IN  /\ Record(r, Call("subscriptions.list", cust, FALSE, ok))
             /\ IF ~ok
                   THEN /\ Respond(r, 500, InvalidBody("Error verifying license key"))
                        /\ UNCHANGED << local, clock >>
                ELSE IF Len(found) > 0
                   THEN LicenseAnswer(r, subscriptions[found[1]])
                ELSE IF rest # << >>
                   THEN /\ local' = [local EXCEPT ![r].customers = rest]
                        /\ UNCHANGED << pc, res, clock >>
                ELSE /\ LicenseNotFound(r)
                     /\ UNCHANGED << local, clock >>
    /\ UNCHANGED << env, provider, req, mail >>

\* subscription = await stripe.subscriptions.retrieve(subscriptionId) of the
\* confirmation, the status check and the answer; a throw reaches the
\* handler's only catch.
ConfirmRetrieve(r) ==
    /\ pc[r] = "confirm.retrieve"
    /\ \E ok \in BOOLEAN :
         LET id == req[r].subscriptionId
             found == ok /\ id \in DOMAIN subscriptions
         IN  /\ Record(r, Call("subscriptions.retrieve", id, FALSE, found))
             /\ IF ~found
                   THEN /\ Respond(r, 500, ErrorBody("Internal server error"))
                        /\ local' = local
                ELSE /\ local' = [local EXCEPT ![r].subscription = subscriptions[id]]
                     /\ IF NotActive(subscriptions[id])
                           THEN Respond(r, 200, NotActiveBody(subscriptions[id]))
                           ELSE Respond(r, 200, ValidBody("confirm", subscriptions[id]))
    /\ UNCHANGED << clock, env, provider, req, mail >>

LicenseNext ==
    \/ \E r \in Req : \E in \in LifecycleInputsOf(r) : Receive(r, in)
    \/ \E r \in Req : \E in \in CheckInputs : CheckReceive(r, in)
    \/ \E r \in Req : RetrieveSubscription(r)
    \/ \E r \in Req : ListCustomers(r)
    \/ \E r \in Req : ListSubscriptions(r)
    \/ \E r \in Req : CancelListInvoices(r)
    \/ \E r \in Req : CancelCreateRefund(r)
    \/ \E r \in Req : CancelNow(r)
    \/ \E r \in Req : CancelUpdate(r)
    \/ \E r \in Req : SettleMail(r)
    \/ \E r \in Req : RefundListInvoices(r)
    \/ \E r \in Req : RefundCancelTrial(r)
    \/ \E r \in Req : RefundTrialEmail(r)
    \/ \E r \in Req : RefundCreateRefund(r)
    \/ \E r \in Req : RefundCancel(r)
    \/ \E r \in Req : RefundEmail(r)
    \/ \E r \in Req : LicenseRetrieve(r)
    \/ \E r \in Req : LicenseListCustomers(r)
    \/ \E r \in Req : LicenseListSubscriptions(r)
    \/ \E r \in Req : ConfirmRetrieve(r)

LicenseSpec == LicenseInit /\ [][LicenseNext]_vars

-----------------------------------------------------------------------------
(* C14 *)

\* r is a request to the cancel/reactivate or to the refund endpoint.
IsLifecycle(r) == req[r].endpoint \in {"cancel", "refund"}

\* r is a request to the license check (either variant).
IsLicense(r) == req[r].endpoint \in {"license", "license.earlier"}

\* r carries no identifier: neither subscriptionId nor email; no licenseKey.
NoIdentifier(r) ==
    \/ IsLifecycle(r) /\ req[r].subscriptionId = Absent /\ req[r].email = Absent
    \/ IsLicense(r) /\ req[r].licenseKey = Absent

\* r was rejected with a client error and an error body.
ClientError(r) ==
    Done(r) /\ res[r].status \in 400..499 /\ res[r].body.fields = {"error"}

\* C14 as stated: on the cancel/reactivate, refund and license-check
\* endpoints a request whose method is not POST, or that carries no
\* identifier, is rejected with a client error and has made no provider
\* call.
C14_RejectedBeforeProvider ==
    \A r \in Req :
        ((IsLifecycle(r) \/ IsLicense(r))
            /\ (req[r].method # "POST" \/ NoIdentifier(r))) =>
        (ClientError(r) /\ calls[r] = << >>)

\* r is a CORS preflight: an OPTIONS request to a lifecycle endpoint.
IsPreflight(r) == IsLifecycle(r) /\ req[r].method = "OPTIONS"

\* C14 as amended: such a request makes no provider call and is rejected
\* with a client error (405 for the method, 400 for the missing identifier),
\* except that an OPTIONS request to the cancel/reactivate or refund
\* endpoint is answered 200 with an empty body, also without a provider
\* call; the license check rejects OPTIONS with 405 like every other method.
C14_RejectedOrPreflight ==
    \A r \in Req :
        ((IsLifecycle(r) \/ IsLicense(r))
            /\ (req[r].method # "POST" \/ NoIdentifier(r))) =>
        /\ Done(r)
        /\ calls[r] = << >>
        /\ local[r].subscription = NoSub
        /\ IF IsPreflight(r)
              THEN res[r].status = 200 /\ res[r].body.fields = {}
           ELSE IF req[r].method # "POST"
              THEN ClientError(r) /\ res[r].status = 405
              ELSE ClientError(r) /\ res[r].status = 400

\* A cancel request with neither subscriptionId nor email was rejected with
\* 400 and a license check with no licenseKey likewise.
C14_Witness ==
    \E r, q \in Req :
        /\ req[r].endpoint = "cancel" /\ req[r].method = "POST" /\ NoIdentifier(r)
        /\ res[r].status = 400
        /\ req[q].endpoint = "license" /\ req[q].method = "POST" /\ NoIdentifier(q)
        /\ res[q].status = 400

-----------------------------------------------------------------------------
(* Notions used by the properties of the license check *)

\* No provider call of r failed at the provider: the only calls that threw
\* are retrievals of an id that the provider does not hold.
NoProviderFailure(r) ==
    \A i \in 1..Len(calls[r]) :
        \/ calls[r][i].ok
        \/ /\ calls[r][i].op = "subscriptions.retrieve"
           /\ calls[r][i].arg \notin DOMAIN subscriptions

\* No subscription has been cancelled immediately: every status is the
\* initial one.
StatusesUnchanged == \A q \in Req : ~Succeeded(q, "subscriptions.cancel")

\* The emails of the model, and their lower-case, trimmed form.
Emails == {KnownEmail, MixedCaseEmail, PaddedEmail}

Normalized(email) ==
    IF email \in Emails THEN KnownEmail ELSE email

\* The ids of the customers whose email is `email` up to case and
\* surrounding whitespace, in listing order.
CustomersMatching(email) ==
    SelectSeq(customers, LAMBDA c : Normalized(c.email) = Normalized(email))

\* The active or trialing subscriptions of customer cust, in listing order.
LiveSubsOf(cust) ==
    SelectSeq(ListingOrder,
              LAMBDA s : /\ s \in DOMAIN subscriptions
                         /\ subscriptions[s].customer = cust
                         /\ subscriptions[s].status \in {"active", "trialing"})

\* Some subscription of a customer matching `email` has status st.
OwnsWithStatus(email, st) ==
    \E i \in 1..Len(CustomersMatching(email)) : \E s \in DOMAIN subscriptions :
        /\ subscriptions[s].customer = CustomersMatching(email)[i].id
        /\ subscriptions[s].status = st

\* The customers matching `email` that have an active or trialing
\* subscription.
LiveCustomers(email) ==
    SelectSeq(CustomersMatching(email), LAMBDA c : LiveSubsOf(c.id) # << >>)

-----------------------------------------------------------------------------
(* C15 *)

\* The key of license check r matches a subscription with status canceled:
\* it is that subscription's id, or the email of a customer that has a
\* canceled subscription and no active or trialing one.
KeyMatchesCanceled(r) ==
    LET key == req[r].licenseKey
    IN  \/ key \in DOMAIN subscriptions /\ subscriptions[key].status = "canceled"
        \/ /\ key \in Emails
           /\ OwnsWithStatus(key, "canceled")
           /\ LiveCustomers(key) = << >>

\* C15: a license check whose key, a subscription id or an email, matches a
\* subscription with status canceled is answered, when no provider call
\* failed, with valid=false together with status="canceled".
C15_CanceledReported ==
    \A r \in Req :
        ( /\ IsLicense(r) /\ Done(r) /\ calls[r] # << >>
          /\ NoProviderFailure(r) /\ StatusesUnchanged
          /\ KeyMatchesCanceled(r) ) =>
        /\ ~res[r].body.valid
        /\ "valid" \in res[r].body.fields
        /\ "status" \in res[r].body.fields
        /\ res[r].body.status = "canceled"

\* C15 as amended: a license check whose key is the id of a subscription
\* with status canceled is answered 200 with valid=false and
\* status="canceled"; a license check whose key is the email of a customer
\* with a canceled subscription and no active or trialing one is answered as
\* not found, 404 with valid=false and no status; in both cases when no
\* provider call failed.
C15_CanceledReportedById ==
    \A r \in Req :
        ( /\ IsLicense(r) /\ Done(r) /\ calls[r] # << >>
          /\ NoProviderFailure(r) /\ StatusesUnchanged
          /\ KeyMatchesCanceled(r) ) =>
        /\ ~res[r].body.valid
        /\ "valid" \in res[r].body.fields
        /\ IF req[r].licenseKey \in DOMAIN subscriptions
              THEN /\ res[r].status = 200
                   /\ res[r].body.fields = {"valid", "error", "status"}
                   /\ res[r].body.status = "canceled"
                   /\ Len(calls[r]) = 1
              ELSE /\ res[r].status = 404
                   /\ res[r].body.fields = {"valid", "error"}

\* A license check by the id of a canceled subscription was answered with
\* status canceled, and one by the email of its customer as not found.
C15_Witness ==
    \E r, q \in Req :
        /\ req[r].endpoint = "license" /\ req[r].licenseKey = "sub_1"
        /\ StatusesUnchanged /\ KeyMatchesCanceled(r)
        /\ res[r].status = 200 /\ res[r].body.status = "canceled"
        /\ req[q].endpoint = "license" /\ req[q].licenseKey = KnownEmail
        /\ KeyMatchesCanceled(q) /\ NoProviderFailure(q)
        /\ res[q].status = 404

-----------------------------------------------------------------------------
(* C16 *)

\* The current period of the subscription that r found had not ended when r
\* read the clock: current_period_end * 1000 >= now.
PeriodNotEnded(r) ==
    (local[r].now + 999) \div 1000 <= local[r].subscription.current_period_end

\* r found a subscription that is active or trialing.
FoundLive(r) ==
    HasLocated(r) /\ local[r].subscription.status \in {"active", "trialing"}

\* The answer of r is valid=true with the id, customer, status, expiry date
\* and cancelAtPeriodEnd of the subscription it found.
AnsweredValid(r) ==
    LET s == local[r].subscription
        b == res[r].body
    IN  /\ res[r].status = 200
        /\ b.valid
        /\ {"valid", "subscriptionId", "customerId", "status", "expiryDate",
            "cancelAtPeriodEnd"} \subseteq b.fields
        /\ b.subscriptionId = s.id /\ b.customerId = s.customer
        /\ b.status = s.status
        /\ b.expiryDate = [iso8601 |-> s.current_period_end]
        /\ b.cancelAtPeriodEnd = s.cancel_at_period_end

\* C16: a license check that found a subscription with status active or
\* trialing whose current period end is not before now answers valid=true
\* with that subscription's id, customer id, status, expiry date and
\* cancelAtPeriodEnd; and no license check answers valid=true otherwise.
C16_ValidForLiveSubscription ==
    \A r \in Req : (IsLicense(r) /\ Done(r)) =>
        /\ (FoundLive(r) /\ PeriodNotEnded(r)) => AnsweredValid(r)
        /\ res[r].body.valid => (FoundLive(r) /\ PeriodNotEnded(r))

-----------------------------------------------------------------------------
(* C17 *)

\* r read the clock before the current period end of the subscription it
\* found: now < current_period_end * 1000.
BeforePeriodEnd(r) ==
    local[r].now \div 1000 < local[r].subscription.current_period_end

\* Request q cancelled subscription sid at period end and was answered with
\* success.
CancelledAtPeriodEnd(q, sid) ==
    /\ IsPlainCancel(q) /\ UpdatedOk(q)
    /\ local[q].subscription.id = sid
    /\ res[q].body.cancelAtPeriodEnd

\* C17: a license check that follows a successful period-end cancellation
\* of an active or trialing subscription, and finds that subscription flagged
\* cancel_at_period_end before its current period end, answers valid=true.
C17_AccessRetained ==
    \A r \in Req :
        ( /\ IsLicense(r) /\ Done(r) /\ FoundLive(r)
          /\ local[r].subscription.cancel_at_period_end
          /\ \E q \in Req : CancelledAtPeriodEnd(q, local[r].subscription.id)
          /\ BeforePeriodEnd(r) ) =>
        (res[r].status = 200 /\ res[r].body.valid)

-----------------------------------------------------------------------------
(* C18 *)

\* r supplies only an email: no subscriptionId to the lifecycle handlers, an
\* email as the licenseKey of the license check.
EmailOnly(r) ==
    \/ IsLifecycle(r) /\ req[r].method = "POST"
                      /\ req[r].subscriptionId = Absent /\ req[r].email \in Emails
    \/ IsLicense(r) /\ req[r].method = "POST" /\ req[r].licenseKey \in Emails

EmailOf(r) == IF IsLicense(r) THEN req[r].licenseKey ELSE req[r].email

\* r ended in a not-found outcome.
NotFound(r) == Done(r) /\ res[r].status = 404

\* C18: a request with only an email, answered with no provider call having
\* failed, has resolved to the first active or trialing subscription among
\* the customers whose email matches up to case and surrounding whitespace,
\* and ends as not-found when there is none; in the cancel/reactivate, refund
\* and license-check handlers alike.
C18_FirstLiveSubscriptionByEmail ==
    \A r \in Req :
        ( /\ EmailOnly(r) /\ Done(r) /\ calls[r] # << >>
          /\ NoProviderFailure(r) /\ StatusesUnchanged ) =>
        LET live == LiveCustomers(EmailOf(r))
        IN  IF live = << >>
            THEN NotFound(r) /\ ~HasLocated(r)
            ELSE /\ HasLocated(r)
                 /\ local[r].subscription.id = LiveSubsOf(live[1].id)[1]
                 /\ ~NotFound(r)

-----------------------------------------------------------------------------
(* C19 *)

\* r supplies a subscription id: as subscriptionId, or as a licenseKey that
\* is not an email.
IdSupplied(r) ==
    \/ req[r].endpoint \in {"cancel", "refund", "confirm"}
          /\ req[r].method = "POST" /\ req[r].subscriptionId # Absent
    \/ IsLicense(r) /\ req[r].method = "POST"
          /\ req[r].licenseKey \notin Emails \cup {Absent}
          /\ req[r].typeofKey = "string"

\* The direct retrieval of r failed.
RetrievalFailed(r) ==
    /\ calls[r] # << >>
    /\ calls[r][1].op = "subscriptions.retrieve"
    /\ ~calls[r][1].ok

WriteOps == {"refunds.create", "subscriptions.cancel", "subscriptions.update"}

\* C19: a request that supplies a subscription id whose direct retrieval
\* failed, for whatever reason, makes no provider write and, once answered,
\* has ended as not-found (404), not as a server error.
C19_RetrievalFailureIsNotFound ==
    \A r \in Req : (IdSupplied(r) /\ RetrievalFailed(r)) =>
        /\ \A i \in 1..Len(calls[r]) : calls[r][i].op \notin WriteOps
        /\ Done(r) => NotFound(r)

-----------------------------------------------------------------------------
(* C20 *)

\* r is a lifecycle request that got as far as the provider and has been
\* answered: it has reached a terminal outcome.
TerminalOutcome(r) ==
    IsLifecycle(r) /\ req[r].method = "POST" /\ calls[r] # << >> /\ Done(r)

\* C20: a lifecycle request that has reached a terminal outcome, a success
\* or an error, has dispatched exactly one notification.
C20_ExactlyOneNotification ==
    \A r \in Req : TerminalOutcome(r) => Len(mail[r]) = 1

-----------------------------------------------------------------------------
(* C21 *)

\* A notification of r reaches its final state in this step: the fetch that
\* was awaited returns or throws, or the one that was not awaited settles.
Settles(r, st) ==
    \E i \in 1..Len(mail'[r]) :
        /\ mail'[r][i].state = st
        /\ i > Len(mail[r]) \/ mail[r][i].state = "inflight"

\* r's notification has failed.
NotificationFailed(r) ==
    \E i \in 1..Len(mail[r]) : mail[r][i].state = "failed"

NotificationDelivered(r) ==
    \E i \in 1..Len(mail[r]) : mail[r][i].state = "delivered"

\* The response that r is given once a notification was dispatched: success.
SuccessResponse(r) ==
    /\ res[r].status = 200
    /\ res[r].body.success
    /\ "error" \notin res[r].body.fields

\* Two answered requests that sent the same input, read the same values and
\* made the same provider calls with the same outcomes.
SameRun(r, q) ==
    /\ Done(r) /\ Done(q)
    /\ req[r] = req[q]
    /\ local[r] = local[q]
    /\ calls[r] = calls[q]

\* The step in which a notification settles leaves the provider, the call
\* log and an already given response alone.
SettlingChangesNothing ==
    \A r \in Req : \A st \in {"delivered", "failed"} :
        Settles(r, st) =>
            /\ provider' = provider
            /\ calls' = calls
            /\ local' = local
            /\ Done(r) => res' = res
            /\ ~Done(r) => \A q \in Req \ {r} : res'[q] = res[q]

\* C21: a failing notification never changes the response or the provider
\* state: settling a notification, as delivered or as failed, writes nothing
\* to the provider and leaves a given response as it is; a request whose
\* notification failed is answered with the success response; and two
\* requests that ran alike have the same response whatever became of their
\* notifications.
C21_NotificationFailureInvisible ==
    /\ [](\A r \in Req : (IsLifecycle(r) /\ Done(r) /\ mail[r] # << >>)
                              => SuccessResponse(r))
    /\ [](\A r, q \in Req : SameRun(r, q) => res[r] = res[q])
    /\ [][SettlingChangesNothing]_vars

\* Witness of C21: two requests ran alike, one's notification failed and the
\* other's was delivered, and both have the same success response.
C21_Witness ==
    \E r, q \in Req :
        /\ IsLifecycle(r) /\ SameRun(r, q)
        /\ NotificationFailed(r) /\ NotificationDelivered(q)
        /\ SuccessResponse(r) /\ res[r] = res[q]

-----------------------------------------------------------------------------
(* C22 *)

\* r dispatches a notification in this step.
Dispatches(r) == Len(mail'[r]) > Len(mail[r])

\* C22: no handler awaits the notification: the step that dispatches one
\* leaves it in flight and gives the response, so that the delivery can
\* come after the response.
C22_DispatchNeverAwaited ==
    [][\A r \in Req : Dispatches(r) =>
            /\ mail'[r][Len(mail'[r])].state = "inflight"
            /\ pc'[r] = "done"]_vars

-----------------------------------------------------------------------------
(* C23 *)

\* C23: a subscription whose status is canceled keeps its status and its
\* cancel_at_period_end flag in every step.
C23_CanceledIsTerminal ==
    [][\A s \in DOMAIN subscriptions :
            subscriptions[s].status = "canceled" =>
                /\ subscriptions'[s].status = "canceled"
                /\ subscriptions'[s].cancel_at_period_end
                      = subscriptions[s].cancel_at_period_end]_vars

-----------------------------------------------------------------------------
(* C24 *)

\* No call of r that threw is followed, in r, by a call of the same
\* operation with the same argument.
NeverRetries(r) ==
    \A i, j \in 1..Len(calls[r]) :
        (i < j /\ ~calls[r][i].ok) =>
            ~(calls[r][j].op = calls[r][i].op /\ calls[r][j].arg = calls[r][i].arg)

\* C24: within one cancel or refund request refunds.create is called at
\* most once, and no provider call that failed is made again.
C24_OneRefundCallNoRetry ==
    \A r \in Req : IsLifecycle(r) =>
        /\ Cardinality(CallsOf(r, "refunds.create")) <= 1
        /\ NeverRetries(r)

\* Witness of C24: a cancel request whose refund creation threw has been
\* answered after that single attempt, and a refund request has created its
\* one refund.
C24_Witness ==
    /\ \E r \in Req :
          /\ IsCancel(r) /\ Done(r) /\ res[r].status = 200
          /\ Failed(r, "refunds.create")
          /\ Cardinality(CallsOf(r, "refunds.create")) = 1
    /\ \E q \in Req :
          /\ IsRefund(q) /\ Done(q) /\ res[q].status = 200
          /\ Succeeded(q, "refunds.create")
          /\ Cardinality(CallsOf(q, "refunds.create")) = 1

-----------------------------------------------------------------------------
(* The handler that resolves a checkout session, and the specification of
   the handlers that only read *)

\* The checkout sessions that the provider holds: of a subscription that may
\* be live, of one that is past due, and one without subscription.  No
\* handler writes a session.
Sessions ==
    [cs \in {"cs_1", "cs_2", "cs_3"} |->
        [id |-> cs,
         subscription |-> IF cs = "cs_1" THEN "sub_1"
                          ELSE IF cs = "cs_2" THEN "sub_2" ELSE Absent,
         customer_email |-> KnownEmail]]

\* The body of a request to resolve a session.
SessionInput(m, sid) == [endpoint |-> "get-session", method |-> m, sessionId |-> sid]

SessionInputs ==
    { SessionInput("POST", "cs_1"),
      SessionInput("POST", "cs_2"),
      SessionInput("POST", "cs_3"),
      SessionInput("POST", "cs_x"),
      SessionInput("POST", Absent),
      SessionInput("GET", "cs_1"),
      SessionInput("OPTIONS", Absent) }

\* useTestMode ? TEST_STRIPE_SECRET_KEY : STRIPE_SECRET_KEY, with
\* useTestMode = !!TEST_STRIPE_SECRET_KEY
sessionSecretKey(e) ==
    IF e.TEST_STRIPE_SECRET_KEY # "" THEN e.TEST_STRIPE_SECRET_KEY
                                     ELSE e.STRIPE_SECRET_KEY

\* { valid: false, error: `Subscription is not active. Status: ...`,
\*   subscriptionId, status }
SessionNotActiveBody(s) ==
    [EmptyBody EXCEPT !.fields = {"valid", "error", "subscriptionId", "status"},
                      !.error = "Subscription is not active. Status",
                      !.subscriptionId = s.id, !.status = s.status]

\* { valid: true, subscriptionId, customerId, status, expiryDate,
\*   currentPeriodEnd, email: session.customer_email }
SessionValidBody(session, s) ==
    [email |-> session.customer_email] @@
    [ValidBody("get-session", s) EXCEPT !.fields = @ \cup {"email"}]

\* The status check and the answer that follow the subscription of the session.
SessionAnswer(r, session, s) ==
    /\ local' = [local EXCEPT ![r].subscription = s]
    /\ IF NotActive(s)
          THEN Respond(r, 200, SessionNotActiveBody(s))
          ELSE Respond(r, 200, SessionValidBody(session, s))

\* The preflight, the method check, the body check and the key check.
SessionReceive(r, in) ==
    /\ pc[r] = "idle"
    /\ \A q \in Req : q < r => pc[q] # "idle"
    /\ req' = [req EXCEPT ![r] = in]
    /\ IF in.method = "OPTIONS"
          THEN Respond(r, 200, EmptyBody)
       ELSE IF in.method # "POST"
          THEN Respond(r, 405, ErrorBody("Method not allowed"))
       ELSE IF in.sessionId = Absent
          THEN Respond(r, 400, ErrorBody("Session ID required"))
       ELSE IF sessionSecretKey(env) = ""
          THEN Respond(r, 500, ErrorBody("Server configuration error"))
       ELSE /\ pc' = [pc EXCEPT ![r] = "sessions.retrieve"]
            /\ res' = res
    /\ UNCHANGED << clock, env, provider, local, calls, mail >>

\* session = await stripe.checkout.sessions.retrieve(sessionId, {expand:
\* ['subscription']}): a throw reaches the catch; session.subscription is
\* null, the expanded subscription, or its id.
SessionRetrieve(r) ==
    /\ pc[r] = "sessions.retrieve"
    /\ \E ok, expanded \in BOOLEAN :
         LET id == req[r].sessionId
             found == ok /\ id \in DOMAIN Sessions
         IN  /\ Record(r, Call("checkout.sessions.retrieve", id, FALSE, found))
             /\ IF ~found
                   THEN /\ Respond(r, 500, ErrorBody("Internal server error"))
                        /\ local' = local
                ELSE IF Sessions[id].subscription = Absent
                   THEN /\ Respond(r, 400, ErrorBody("No subscription found in session"))
                        /\ local' = local
                ELSE IF expanded
                   THEN SessionAnswer(r, Sessions[id], subscriptions[Sessions[id].subscription])
                ELSE /\ pc' = [pc EXCEPT ![r] = "session.subscription"]
                     /\ UNCHANGED << res, local >>
    /\ UNCHANGED << clock, env, provider, req, mail >>

\* typeof subscriptionId === 'string': subscription = await
\* stripe.subscriptions.retrieve(subscriptionId)
SessionRetrieveSubscription(r) ==
    /\ pc[r] = "session.subscription"
    /\ \E ok \in BOOLEAN :
         LET session == Sessions[req[r].sessionId]
         IN  /\ Record(r, Call("subscriptions.retrieve", session.subscription, FALSE, ok))
             /\ IF ok
                   THEN SessionAnswer(r, session, subscriptions[session.subscription])
                   ELSE /\ Respond(r, 500, ErrorBody("Internal server error"))
                        /\ local' = local
    /\ UNCHANGED << clock, env, provider, req, mail >>

\* The handlers that only read: the resolution of a session, the
\* confirmation of a subscription and the two variants of the license check.
ReadNext ==
    \/ \E r \in Req : \E in \in SessionInputs : SessionReceive(r, in)
    \/ \E r \in Req : SessionRetrieve(r)
    \/ \E r \in Req : SessionRetrieveSubscription(r)
    \/ \E r \in Req : \E in \in CheckInputs : CheckReceive(r, in)
    \/ \E r \in Req : LicenseRetrieve(r)
    \/ \E r \in Req : LicenseListCustomers(r)
    \/ \E r \in Req : LicenseListSubscriptions(r)
    \/ \E r \in Req : ConfirmRetrieve(r)

ReadSpec == LicenseInit /\ [][ReadNext]_vars

-----------------------------------------------------------------------------
(* C25 *)

\* r is a request to one of the handlers that resolve, confirm or check.
IsRead(r) ==
    req[r].endpoint \in {"get-session", "confirm", "license", "license.earlier"}

\* Two answered calls of the same handler with the same body, to which the
\* provider gave the same answers.
RepeatedCall(r, q) ==
    /\ r # q
    /\ IsRead(r) /\ Done(r) /\ Done(q)
    /\ req[r] = req[q]
    /\ calls[r] = calls[q]

\* r read the clock after the period end of the subscription that it found
\* (the clock is read for a live subscription of a license check only):
\* with the period end in seconds and the time in ms, end * 1000 < now.
ReadAfterPeriodEnd(r) ==
    /\ local[r].now # 0
    /\ local[r].subscription.current_period_end <= (local[r].now - 1) \div 1000

\* No step writes to the provider.
ReadOnly == [][provider' = provider]_vars

\* C25 as stated: the read handlers write nothing to the provider, and two
\* repeated calls against the unchanged provider state have the same
\* response.
C25_ReadOnlyAndRepeatable ==
    /\ ReadOnly
    /\ [](\A r, q \in Req : RepeatedCall(r, q) => res[r] = res[q])

\* C25, amended: the read handlers write nothing to the provider, and two
\* repeated calls against the unchanged provider state have the same
\* response when they are not on different sides of the period end of the
\* subscription found (which only the license check compares with the time
\* of the call).
C25_ReadOnlyAndRepeatableInTime ==
    /\ [][provider' = provider /\ mail' = mail]_vars
    /\ [](\A r, q \in Req :
            (RepeatedCall(r, q) /\ (ReadAfterPeriodEnd(r) <=> ReadAfterPeriodEnd(q)))
                => res[r] = res[q])

\* Witness of C25: a session was resolved twice with the same valid answer,
\* and (in another behaviour) a license was checked twice at different
\* instants before the period end, or a subscription confirmed twice, with
\* the same answer.
C25_SessionWitness ==
    \E r, q \in Req :
        /\ RepeatedCall(r, q) /\ req[r].endpoint = "get-session"
        /\ res[r].status = 200 /\ res[r].body.valid /\ res[r] = res[q]
        /\ refunds = << >>

C25_Witness ==
    \E r, q \in Req :
        /\ RepeatedCall(r, q) /\ req[r].endpoint = "license.earlier"
        /\ local[r].now # 0 /\ local[q].now # 0 /\ local[r].now # local[q].now
        /\ ~ReadAfterPeriodEnd(r) /\ ~ReadAfterPeriodEnd(q)
        /\ res[r].status = 200 /\ res[r].body.valid /\ res[r] = res[q]

-----------------------------------------------------------------------------
(* C26 *)

\* r is a refund request that found a trialing subscription and read the
\* clock within 7 days of its creation.
TrialRefundInWindow(r) ==
    /\ IsRefund(r) /\ HasLocated(r)
    /\ local[r].subscription.status = "trialing"
    /\ ElapsedMs(r) <= SevenDaysMs

\* C26: a refund request for a trialing subscription inside the window, with
\* no provider call throwing, creates no refund and, once answered, has
\* cancelled the subscription immediately and is answered with success and
\* cancelled=true, whatever invoices the subscription has.
C26_TrialRefundCancels ==
    \A r \in Req : (TrialRefundInWindow(r) /\ NoCallThrew(r)) =>
        /\ CallsOf(r, "refunds.create") = {}
        /\ Done(r) =>
              /\ Succeeded(r, "subscriptions.cancel")
              /\ subscriptions[local[r].subscription.id].status = "canceled"
              /\ res[r].status = 200
              /\ res[r].body.success /\ res[r].body.cancelled

-----------------------------------------------------------------------------
(* C27 *)

\* The values of `action` that the cancel handler knows: none, and
\* 'reactivate'.
RecognisedActions == {Absent, "reactivate"}

\* C27: a cancel request whose action is not a recognised one makes no
\* provider write and, once answered, has been rejected: its answer is an
\* error, not a success.
C27_UnknownActionRejected ==
    \A r \in Req : (IsCancel(r) /\ req[r].action \notin RecognisedActions) =>
        /\ \A i \in 1..Len(calls[r]) : calls[r][i].op \notin WriteOps
        /\ Done(r) => (res[r].status >= 400 /\ ~res[r].body.success)

-----------------------------------------------------------------------------
(* C28 *)

IsReactivate(r) == IsCancel(r) /\ req[r].action = "reactivate"

\* C28: every step of a reactivate request, whatever its autoRefund, leaves
\* refunds, invoices, customers and every subscription's status as they
\* are; the only change it makes is cancel_at_period_end := false on its own
\* subscription; it calls nothing but its lookup and one
\* subscriptions.update with the flag false.
C28_ReactivateOnlyClearsFlag ==
    [][ \A r \in Req : (IsReactivate(r) /\ StepOf(r)) =>
          LET sid == local'[r].subscription.id
          IN  /\ refunds' = refunds /\ invoices' = invoices /\ customers' = customers
              /\ \A s \in SubIds :
                    \/ subscriptions'[s] = subscriptions[s]
                    \/ /\ s = sid
                       /\ subscriptions'[s] =
                            [subscriptions[s] EXCEPT !.cancel_at_period_end = FALSE]
              /\ \A i \in 1..Len(calls'[r]) :
                    \/ calls'[r][i].op \in LookupOps
                    \/ /\ calls'[r][i].op = "subscriptions.update"
                       /\ ~calls'[r][i].flag
              /\ Cardinality({ i \in 1..Len(calls'[r]) :
                                  calls'[r][i].op = "subscriptions.update" }) <= 1
      ]_vars

\* Witness of C28: a reactivate request with autoRefund=true on a
\* subscription that holds a paid charge was answered with success and the
\* flag false; nothing was refunded and nothing cancelled.
C28_Witness ==
    \E r \in Req :
        /\ IsReactivate(r) /\ req[r].autoRefund /\ Done(r)
        /\ AnsweredPeriodEnd(r, FALSE)
        /\ HasPaidCharge(local[r].subscription.id)
        /\ Succeeded(r, "subscriptions.update")
        /\ refunds = << >>
        /\ subscriptions[local[r].subscription.id].status # "canceled"
        /\ ~subscriptions[local[r].subscription.id].cancel_at_period_end

-----------------------------------------------------------------------------
(* C29 *)

\* The response of r reports a refund: refunded=true with the amount from
\* the cancel handler, the refund id from the refund handler.
ReportsRefund(r) ==
    IF IsCancel(r)
    THEN /\ {"refunded", "refundAmount"} \subseteq res[r].body.fields
         /\ res[r].body.refunded
         /\ res[r].body.refundAmount = Pounds(local[r].refund.amount)
    ELSE /\ "refundId" \in res[r].body.fields
         /\ res[r].body.refundId = local[r].refund.id

\* C29: an answered request that has created a refund reports it in its
\* response.
C29_RefundReported ==
    \A r \in Req :
        (IsLifecycle(r) /\ Done(r) /\ Succeeded(r, "refunds.create"))
            => ReportsRefund(r)

-----------------------------------------------------------------------------
(* C30 *)

\* Request r has created a refund before its call at position i.
RefundedBefore(r, i) ==
    \E j \in CallsOf(r, "refunds.create") : j < i /\ calls[r][j].ok

\* Every immediate cancellation by a request that found its subscription in
\* a status other than trialing follows a refund created by that request.
CancelFollowsRefund ==
    \A r \in Req : \A i \in CallsOf(r, "subscriptions.cancel") :
        (calls[r][i].ok /\ local[r].subscription.status # "trialing")
            => RefundedBefore(r, i)

\* A step that cancels a subscription whose status is neither trialing nor
\* canceled is the step of a request that has created a refund.
PaidCancelIsRefunded ==
    \A s \in DOMAIN subscriptions :
        (/\ subscriptions[s].status \notin {"trialing", "canceled"}
         /\ subscriptions'[s].status = "canceled")
            => \E r \in Req :
                  /\ calls'[r] # calls[r]
                  /\ local[r].subscription.id = s
                  /\ local[r].refunded
                  /\ Succeeded(r, "refunds.create")

\* C30: a subscription that was cancelled immediately while it was not
\* trialing has a refund that the same request created before: in every
\* state for every request's call log, in every step that cancels, and in
\* the provider's refunds.
C30_ImmediateCancelHasRefund ==
    /\ []CancelFollowsRefund
    /\ [][PaidCancelIsRefunded]_vars
    /\ [](\A s \in DOMAIN subscriptions :
             (subscriptions[s].status = "canceled"
              /\ \E r \in Req : /\ local[r].subscription.id = s
                                 /\ local[r].subscription.status = "active")
                 => refunds # << >>)

\* Witness of C30: an active subscription was refunded and then cancelled
\* by one request, while another request's refund creation threw and left
\* the subscription to that cancellation.
C30_Witness ==
    \E r, q \in Req :
        /\ Done(r) /\ Done(q)
        /\ local[r].subscription.status = "active"
        /\ Succeeded(r, "refunds.create") /\ Succeeded(r, "subscriptions.cancel")
        /\ Failed(q, "refunds.create") /\ ~Succeeded(q, "subscriptions.cancel")
        /\ subscriptions[local[r].subscription.id].status = "canceled"
        /\ Len(refunds) = 1

-----------------------------------------------------------------------------
(* C31 *)

\* r is a refund request that found its subscription and read the clock more
\* than 7 days after the subscription's creation.
ExpiredRefund(r) ==
    IsRefund(r) /\ HasLocated(r) /\ ElapsedMs(r) > SevenDaysMs

\* r was answered with the client error 'Refund window expired'.
AnsweredExpired(r) ==
    /\ Done(r)
    /\ res[r].status = 400
    /\ res[r].body.fields = {"error"}
    /\ res[r].body.error = "Refund window expired"

\* The step in which a refund request finds the window expired writes
\* nothing to the provider.
ExpiredRefundWritesNothing ==
    \A r \in Req : (StepOf(r) /\ ExpiredRefund(r)') => provider' = provider

\* C31: a refund request for a subscription created more than 7 days before
\* now is answered 400 'Refund window expired'; it has called nothing but its
\* lookup, so that no refund is created and the subscription is neither
\* cancelled nor flagged, and the step that answers it leaves the provider
\* as it is.
C31_ExpiredRefundRejected ==
    /\ [](\A r \in Req : ExpiredRefund(r) =>
             /\ AnsweredExpired(r)
             /\ \A i \in 1..Len(calls[r]) : calls[r][i].op \in LookupOps
             /\ mail[r] = << >>)
    /\ [][ExpiredRefundWritesNothing]_vars

\* Witness of C31: a refund request on a subscription with a paid charge,
\* read one millisecond after the seventh day, was rejected as expired; the
\* subscription is live and unflagged and there is no refund.
C31_Witness ==
    \E r \in Req :
        /\ ExpiredRefund(r) /\ AnsweredExpired(r)
        /\ ElapsedMs(r) = SevenDaysMs + 1
        /\ HasPaidCharge(local[r].subscription.id)
        /\ subscriptions[local[r].subscription.id].status = "active"
        /\ ~subscriptions[local[r].subscription.id].cancel_at_period_end
        /\ refunds = << >>

-----------------------------------------------------------------------------
(* The handlers that create a checkout session and a payment intent, and the
   specification of a checkout followed by another checkout or by a lookup *)

NewEmail == "new@example.com"

\* The ids that the provider gives to the customers and subscriptions it
\* creates, in the order of creation.
NewCustomerIds == << "cus_1", "cus_2", "cus_3", "cus_4", "cus_5" >>
NewSubscriptionIds == << "sub_3", "sub_4", "sub_5" >>

\* Settings of process.env: every combination of FORCE_TEST_MODE, the test
\* key and the production key with the publishable keys and no price id, and
\* the production setting with a price id or without the publishable key.
CheckoutEnvSettings ==
    { [FORCE_TEST_MODE |-> f, TEST_STRIPE_SECRET_KEY |-> t, STRIPE_SECRET_KEY |-> k,
       TEST_STRIPE_PUBLISHABLE_KEY |-> "pk_test", STRIPE_PUBLISHABLE_KEY |-> "pk_live",
       STRIPE_PRICE_ID |-> ""] :
         f \in {"", "true"}, t \in {"", "sk_test"}, k \in {"", "sk_live"} }
    \cup
    { [FORCE_TEST_MODE |-> "", TEST_STRIPE_SECRET_KEY |-> "", STRIPE_SECRET_KEY |-> "sk_live",
       TEST_STRIPE_PUBLISHABLE_KEY |-> "", STRIPE_PUBLISHABLE_KEY |-> p,
       STRIPE_PRICE_ID |-> "price_1"] : p \in {"", "pk_live"} }

\* The body of a request to create a checkout session or a payment intent.
CheckoutInput(ep, m, em) == [endpoint |-> ep, method |-> m, email |-> em]

CheckoutInputs ==
    { CheckoutInput("create-checkout", "POST", NewEmail),
      CheckoutInput("create-checkout", "POST", KnownEmail),
      CheckoutInput("create-checkout", "POST", Absent),
      CheckoutInput("create-checkout", "GET", NewEmail),
      CheckoutInput("create-checkout", "OPTIONS", Absent),
      CheckoutInput("create-payment-intent", "POST", NewEmail),
      CheckoutInput("create-payment-intent", "POST", Absent),
      CheckoutInput("create-payment-intent", "GET", NewEmail) }

\* The lookups that follow a checkout: by the cancel handler, the refund
\* handler, the session resolution, the license check and the confirmation.
LookupLifecycleInputs ==
    { Input("cancel", "POST", "sub_1", Absent, Absent, TRUE),
      Input("cancel", "POST", Absent, KnownEmail, Absent, FALSE),
      Input("refund", "POST", "sub_1", Absent, Absent, FALSE) }

LookupCheckInputs ==
    { Check("license", "POST", "sub_1", "string"),
      Check("license", "POST", KnownEmail, "string"),
      Input("confirm", "POST", "sub_1", Absent, Absent, FALSE) }

LookupSessionInputs == { SessionInput("POST", "cs_1") }

\* The first request is a checkout; the later ones are checkouts or lookups.
LookupsOf(r, inputs) == IF r = 1 THEN {} ELSE inputs

CheckoutInit ==
    /\ clock = 1
    /\ env \in CheckoutEnvSettings
    /\ customers = << [id |-> "cus_1", email |-> KnownEmail] >>
    /\ \E st \in {"active", "trialing"} :
          subscriptions = [s \in SubIds |->
              [id |-> s, status |-> st, created |-> 0, customer |-> "cus_1",
               current_period_end |-> 31536000, cancel_at_period_end |-> FALSE]]
    /\ invoices = [s \in SubIds |-> << Invoice("paid", "ch_1") >>]
    /\ refunds = << >>
    /\ pc = [r \in Req |-> "idle"]
    /\ req = [r \in Req |-> NoInput]
    /\ local = [r \in Req |-> LicenseLocal]
    /\ calls = [r \in Req |-> << >>]
    /\ res = [r \in Req |-> NoRes]
    /\ mail = [r \in Req |-> << >>]

\* useTestMode ? TEST_STRIPE_SECRET_KEY : STRIPE_SECRET_KEY of create-checkout
checkoutSecretKey(e) ==
    IF e.TEST_STRIPE_SECRET_KEY # "" THEN e.TEST_STRIPE_SECRET_KEY
                                     ELSE e.STRIPE_SECRET_KEY

\* useTestMode ? TEST_STRIPE_PUBLISHABLE_KEY : STRIPE_PUBLISHABLE_KEY
checkoutPublishableKey(e) ==
    IF e.TEST_STRIPE_SECRET_KEY # "" THEN e.TEST_STRIPE_PUBLISHABLE_KEY
                                     ELSE e.STRIPE_PUBLISHABLE_KEY

\* The step that follows the customer: the session of create-checkout, the
\* price of create-payment-intent.
AfterCustomer(ep) ==
    IF ep = "create-checkout" THEN "checkout.sessions.create" ELSE "intent.price"

\* The preflight (create-checkout only), the method check and the key check;
\* then the customer by email, or none (create-checkout) or an anonymous one
\* (create-payment-intent) without email.
CheckoutReceive(r, in) ==
    /\ pc[r] = "idle"
    /\ \A q \in Req : q < r => pc[q] # "idle"
    /\ req' = [req EXCEPT ![r] = in]
    /\ IF in.endpoint = "create-checkout" /\ in.method = "OPTIONS"
          THEN Respond(r, 200, EmptyBody)
       ELSE IF in.method # "POST"
          THEN Respond(r, 405, ErrorBody("Method not allowed"))
       ELSE IF in.endpoint = "create-checkout"
               /\ (checkoutSecretKey(env) = "" \/ checkoutPublishableKey(env) = "")
          THEN Respond(r, 500, ErrorBody("Server configuration error"))
       ELSE IF in.endpoint = "create-payment-intent"
               /\ (env.STRIPE_SECRET_KEY = "" \/ env.STRIPE_PUBLISHABLE_KEY = "")
          THEN Respond(r, 500, ErrorBody("Server configuration error"))
       ELSE /\ pc' = [pc EXCEPT ![r] =
                        IF in.email # Absent THEN "checkout.customers.list"
                        ELSE IF in.endpoint = "create-checkout"
                             THEN "checkout.sessions.create"
                             ELSE "checkout.customers.create"]
            /\ res' = res
    /\ UNCHANGED << clock, env, provider, local, calls, mail >>

\* customers = await stripe.customers.list({email, limit: 1}): the first
\* customer found is used, with none a customer is created next.
CheckoutListCustomers(r) ==
    /\ pc[r] = "checkout.customers.list"
    /\ \E ok \in BOOLEAN :
         LET data == customersList(req[r].email)
         IN  /\ Record(r, Call("customers.list", req[r].email, FALSE, ok))
             /\ IF ~ok
                   THEN /\ Respond(r, 500, ErrorBody("Internal server error"))
                        /\ local' = local
                ELSE IF Len(data) > 0
                   THEN /\ local' = [local EXCEPT ![r].customer = data[1].id]
                        /\ pc' = [pc EXCEPT ![r] = AfterCustomer(req[r].endpoint)]
                        /\ res' = res
                ELSE /\ pc' = [pc EXCEPT ![r] = "checkout.customers.create"]
                     /\ UNCHANGED << res, local >>
    /\ UNCHANGED << clock, env, provider, req, mail >>

\* customer = await stripe.customers.create({email, ...}), or
\* stripe.customers.create() without email
CheckoutCreateCustomer(r) ==
    /\ pc[r] = "checkout.customers.create"
    /\ \E ok \in BOOLEAN :
         LET customer == [id |-> NewCustomerIds[Len(customers) + 1],
                          email |-> req[r].email]
         IN  /\ Record(r, Call("customers.create", req[r].email, FALSE, ok))
             /\ IF ok
                   THEN /\ customers' = Append(customers, customer)
                        /\ local' = [local EXCEPT ![r].customer = customer.id]
                        /\ pc' = [pc EXCEPT ![r] = AfterCustomer(req[r].endpoint)]
                        /\ res' = res
                   ELSE /\ Respond(r, 500, ErrorBody("Internal server error"))
                        /\ UNCHANGED << customers, local >>
    /\ UNCHANGED << clock, env, subscriptions, invoices, refunds, req, mail >>

\* session = await stripe.checkout.sessions.create(sessionConfig) with the
\* customer, and the answer { sessionId, url, publishableKey }.  The
\* sessions that the provider has created are the calls of the log that
\* succeeded.
CheckoutCreateSession(r) ==
    /\ pc[r] = "checkout.sessions.create"
    /\ \E ok \in BOOLEAN :
         /\ Record(r, Call("checkout.sessions.create", local[r].customer, FALSE, ok))
         /\ IF ok
               THEN Respond(r, 200,
                      [sessionId |-> "cs_new",
                       publishableKey |-> checkoutPublishableKey(env)] @@
                      [EmptyBody EXCEPT
                         !.fields = {"sessionId", "url", "publishableKey"},
                         !.customerId = local[r].customer])
               ELSE Respond(r, 500, ErrorBody("Internal server error"))
    /\ UNCHANGED << clock, env, provider, req, local, mail >>

\* price = priceId ? await stripe.prices.retrieve(priceId)
\*                 : await stripe.prices.create({...})
IntentPrice(r) ==
    /\ pc[r] = "intent.price"
    /\ \E ok \in BOOLEAN :
         /\ Record(r, Call(IF env.STRIPE_PRICE_ID # "" THEN "prices.retrieve"
                                                       ELSE "prices.create",
                           env.STRIPE_PRICE_ID, FALSE, ok))
         /\ IF ok
               THEN /\ pc' = [pc EXCEPT ![r] = "intent.subscriptions.create"]
                    /\ res' = res
               ELSE Respond(r, 500, ErrorBody("Internal server error"))
    /\ UNCHANGED << clock, env, provider, req, local, mail >>

\* subscription = await stripe.subscriptions.create({customer, ...,
\* payment_behavior: 'default_incomplete'}) with its open first invoice, and
\* the answer { clientSecret, subscriptionId, customerId, ... }
IntentCreateSubscription(r) ==
    /\ pc[r] = "intent.subscriptions.create"
    /\ \E ok \in BOOLEAN :
         LET id == NewSubscriptionIds[Cardinality(DOMAIN subscriptions \ SubIds) + 1]
             subscription ==
                 [id |-> id, status |-> "incomplete", created |-> 0,
                  customer |-> local[r].customer,
                  current_period_end |-> 31536000, cancel_at_period_end |-> FALSE]
         IN  /\ Record(r, Call("subscriptions.create", local[r].customer, FALSE, ok))
             /\ IF ok
                   THEN /\ subscriptions' = (id :> subscription) @@ subscriptions
                        /\ invoices' = (id :> << Invoice("open", NoCharge) >>) @@ invoices
                        /\ local' = [local EXCEPT ![r].subscription = subscription]
                        /\ Respond(r, 200,
                              [clientSecret |-> "secret",
                               publishableKey |-> env.STRIPE_PUBLISHABLE_KEY] @@
                              [EmptyBody EXCEPT
                                 !.fields = {"clientSecret", "subscriptionId",
                                             "customerId", "publishableKey", "priceId"},
                                 !.subscriptionId = id,
                                 !.customerId = local[r].customer])
                   ELSE /\ Respond(r, 500, ErrorBody("Internal server error"))
                        /\ UNCHANGED << subscriptions, invoices, local >>
    /\ UNCHANGED << clock, env, customers, refunds, req, mail >>

CheckoutNext ==
    \/ \E r \in Req : \E in \in CheckoutInputs : CheckoutReceive(r, in)
    \/ \E r \in Req : CheckoutListCustomers(r)
    \/ \E r \in Req : CheckoutCreateCustomer(r)
    \/ \E r \in Req : CheckoutCreateSession(r)
    \/ \E r \in Req : IntentPrice(r)
    \/ \E r \in Req : IntentCreateSubscription(r)
    \/ \E r \in Req : \E in \in LookupsOf(r, LookupLifecycleInputs) : Receive(r, in)
    \/ \E r \in Req : \E in \in LookupsOf(r, LookupCheckInputs) : CheckReceive(r, in)
    \/ \E r \in Req : \E in \in LookupsOf(r, LookupSessionInputs) : SessionReceive(r, in)
    \/ \E r \in Req : RetrieveSubscription(r)
    \/ \E r \in Req : ListCustomers(r)
    \/ \E r \in Req : ListSubscriptions(r)
    \/ \E r \in Req : CancelListInvoices(r)
    \/ \E r \in Req : CancelCreateRefund(r)
    \/ \E r \in Req : CancelNow(r)
    \/ \E r \in Req : CancelUpdate(r)
    \/ \E r \in Req : SettleMail(r)
    \/ \E r \in Req : RefundListInvoices(r)
    \/ \E r \in Req : RefundCancelTrial(r)
    \/ \E r \in Req : RefundTrialEmail(r)
    \/ \E r \in Req : RefundCreateRefund(r)
    \/ \E r \in Req : RefundCancel(r)
    \/ \E r \in Req : RefundEmail(r)
    \/ \E r \in Req : SessionRetrieve(r)
    \/ \E r \in Req : SessionRetrieveSubscription(r)
    \/ \E r \in Req : LicenseRetrieve(r)
    \/ \E r \in Req : LicenseListCustomers(r)
    \/ \E r \in Req : LicenseListSubscriptions(r)
    \/ \E r \in Req : ConfirmRetrieve(r)

CheckoutSpec == CheckoutInit /\ [][CheckoutNext]_vars

-----------------------------------------------------------------------------
(* C32 *)

\* The successful customers.create calls of all requests for an email.
CreatedFor(email) ==
    { c \in UNION { { << r, i >> : i \in CallsOf(r, "customers.create") } : r \in Req } :
        /\ calls[c[1]][c[2]].ok
        /\ calls[c[1]][c[2]].arg = email }

\* The provider's customers with an email.
CustomersWith(email) ==
    { i \in 1..Len(customers) : customers[i].email = email }

\* C32: whatever the interleaving of checkout and payment-intent requests
\* with the same email, this system has created at most one customer with
\* that email, and none when the provider already held one.
C32_OneCustomerPerEmail ==
    \A email \in {KnownEmail, NewEmail} :
        /\ Cardinality(CreatedFor(email)) <= 1
        /\ Cardinality(CustomersWith(email)) <= 1

-----------------------------------------------------------------------------
(* C33 *)

\* The credential that the handler of r selects from process.env.
SelectedKey(r) ==
    CASE req[r].endpoint \in {"cancel", "refund", "license"} -> stripeSecretKey(env)
      [] req[r].endpoint = "get-session" -> sessionSecretKey(env)
      [] req[r].endpoint = "create-checkout" -> checkoutSecretKey(env)
      [] OTHER -> env.STRIPE_SECRET_KEY

\* r has called the provider with the credential it selected.
UsesProvider(r) == calls[r] # << >>

\* C33: under every setting of the environment, the requests that call the
\* provider do so with the same credential: a checkout and the lookup that
\* follows it reach the same provider account.
C33_SameCredential ==
    \A r, q \in Req :
        (UsesProvider(r) /\ UsesProvider(q)) => SelectedKey(r) = SelectedKey(q)

-----------------------------------------------------------------------------
(* The specification of the handlers that answer lifecycle requests, license
   checks and webhook deliveries, with every provider call returning or
   failing in the end *)

\* Settings of process.env: production keys with the webhook secret; test
\* mode forced with the test key and no webhook secret.
LiveEnvSettings ==
    { [FORCE_TEST_MODE |-> "", TEST_STRIPE_SECRET_KEY |-> "",
       STRIPE_SECRET_KEY |-> "sk_live", STRIPE_WEBHOOK_SECRET |-> "whsec_1"],
      [FORCE_TEST_MODE |-> "true", TEST_STRIPE_SECRET_KEY |-> "sk_test",
       STRIPE_SECRET_KEY |-> "sk_live", STRIPE_WEBHOOK_SECRET |-> ""] }

\* Lifecycle requests, by id and by email.
LiveLifecycleInputs ==
    { Input("cancel", "POST", "sub_1", Absent, Absent, TRUE),
      Input("cancel", "POST", "sub_1", Absent, "reactivate", FALSE),
      Input("cancel", "POST", Absent, KnownEmail, Absent, FALSE),
      Input("cancel", "GET", "sub_1", Absent, Absent, FALSE),
      Input("refund", "POST", "sub_1", Absent, Absent, FALSE),
      Input("refund", "POST", Absent, Absent, Absent, FALSE) }

\* License checks and webhook deliveries.
LiveCheckInputs ==
    { Check("license", "POST", "sub_1", "string"),
      Check("license", "POST", KnownEmail, "string"),
      Check("license", "POST", Absent, "undefined"),
      Check("license.earlier", "POST", "sub_1", "string"),
      Input("confirm", "POST", "sub_1", Absent, Absent, FALSE) }

LiveWebhookInputs ==
    { Delivery("POST", "whsec_1", "checkout.session.completed", "subscription", "sub_1"),
      Delivery("POST", "whsec_1", "checkout.session.completed", "subscription", "sub_x"),
      Delivery("POST", "whsec_1", "customer.subscription.deleted", Absent, Absent),
      Delivery("POST", "whsec_forged", "checkout.session.completed", "subscription", "sub_1"),
      Delivery("GET",  "whsec_1", "checkout.session.completed", "subscription", "sub_1") }

\* The handlers' locals.
LiveLocal == [event |-> NoEvent] @@ LicenseLocal

LiveInit ==
    /\ clock = 1
    /\ env \in LiveEnvSettings
    /\ customers = << [id |-> "cus_1", email |-> KnownEmail] >>
    /\ \E st \in {"active", "trialing"} :
          subscriptions = [s \in SubIds |->
              [id |-> s, status |-> st, created |-> 0, customer |-> "cus_1",
               current_period_end |-> 31536000, cancel_at_period_end |-> FALSE]]
    /\ invoices = [s \in SubIds |-> << Invoice("paid", "ch_1") >>]
    /\ refunds = << >>
    /\ pc = [r \in Req |-> "idle"]
    /\ req = [r \in Req |-> NoInput]
    /\ local = [r \in Req |-> LiveLocal]
    /\ calls = [r \in Req |-> << >>]
    /\ res = [r \in Req |-> NoRes]
    /\ mail = [r \in Req |-> << >>]

\* The return or the failure of the provider call (or of the awaited
\* notification) that the handler of r is waiting for, with the code that
\* follows it.
Returns(r) ==
    \/ RetrieveSubscription(r)
    \/ ListCustomers(r)
    \/ ListSubscriptions(r)
    \/ CancelListInvoices(r)
    \/ CancelCreateRefund(r)
    \/ CancelNow(r)
    \/ CancelUpdate(r)
    \/ RefundListInvoices(r)
    \/ RefundCancelTrial(r)
    \/ RefundTrialEmail(r)
    \/ RefundCreateRefund(r)
    \/ RefundCancel(r)
    \/ RefundEmail(r)
    \/ LicenseRetrieve(r)
    \/ LicenseListCustomers(r)
    \/ LicenseListSubscriptions(r)
    \/ ConfirmRetrieve(r)
    \/ WebhookRetrieve(r)

LiveNext ==
    \/ \E r \in Req : \E in \in LiveLifecycleInputs : Receive(r, in)
    \/ \E r \in Req : \E in \in LookupsOf(r, LiveCheckInputs) : CheckReceive(r, in)
    \/ \E r \in Req : \E d \in LookupsOf(r, LiveWebhookInputs) : WebhookReceive(r, d)
    \/ \E r \in Req : Returns(r)
    \/ \E r \in Req : SettleMail(r)

\* Every provider call that a handler awaits returns or fails in the end.
LiveSpec ==
    /\ LiveInit /\ [][LiveNext]_vars
    /\ \A r \in Req : WF_vars(Returns(r))

-----------------------------------------------------------------------------
(* C34 *)

\* r has been received.
Received(r) == pc[r] # "idle"

\* r has its response.
Responded(r) == res[r].status # 0

\* A response, once given, is not given again or changed.
RespondsOnce ==
    \A r \in Req : Responded(r) => (res'[r] = res[r] /\ pc'[r] = "done")

\* C34: every request that was received is answered in the end, whatever
\* provider calls fail on its way; the answered requests are those whose
\* handler has ended, and a response is given once.
C34_EventuallyOneResponse ==
    /\ \A r \in Req : Received(r) ~> (Done(r) /\ Responded(r))
    /\ [](\A r \in Req : Done(r) <=> Responded(r))
    /\ [][RespondsOnce]_vars

\* Witness of C34: a cancel request whose refund creation and period-end
\* update both threw has its one response, an error, and a webhook delivery
\* whose retrieval threw has been acknowledged.
C34_Witness ==
    \E r, q \in Req :
        /\ IsCancel(r) /\ Done(r) /\ Responded(r)
        /\ Failed(r, "refunds.create") /\ Failed(r, "subscriptions.update")
        /\ res[r].status = 500
        /\ IsWebhook(q) /\ Done(q) /\ Responded(q)
        /\ Failed(q, "subscriptions.retrieve")

====
